---- MODULE Spec2Model ----
(***************************************************************************)
(* palm-tree: the stochastic traffic pattern engine.                       *)
(*                                                                         *)
(*   src/issue_traffic.py   IssueTrafficGenerator: the troubleshooting     *)
(*                          session (run / simulate_issue / _select_issue) *)
(*   src/traffic_noise.py   the worker pool (worker / main_async), the     *)
(*                          Markov chain, the chaos generator and the      *)
(*                          privacy metrics                                *)
(*                                                                         *)
(* Both programs are asyncio programs: a coroutine runs without            *)
(* interruption from one await to the next, so every action below is the   *)
(* code between two awaits of one coroutine (or a part of it, where no     *)
(* other coroutine can observe the difference).                            *)
(*                                                                         *)
(* Probabilities are in hundredths (chaos_factor 0.3 is 30), a draw of     *)
(* random.random() is a value of RandomDraws, random.choice(l) is an index *)
(* into l.  Wall-clock time is an input of the program: the model keeps    *)
(* only which deadlines time.time() has passed, and lets it pass them      *)
(* while a coroutine is suspended.  In the worker pool the chaos           *)
(* generator keeps r in hundredths and x in thousandths, delays are in     *)
(* milliseconds, and random.uniform(a, b) is drawn at its low end a.       *)
(***************************************************************************)
EXTENDS Integers, Sequences, FiniteSets, TLC

VARIABLES
    \* ---- src/issue_traffic.py ----
    gen,            \* the IssueTrafficGenerator object (its attributes)
    run_pc,         \* where the run() coroutine stands
    run_local,      \* locals of run() and of the simulate_issue() it awaits
    passed,         \* which of run's and simulate_issue's end times time.time() has passed
    \* ---- src/traffic_noise.py ----
    config,         \* the Config main() builds
    state,          \* the module-level AppState object
    privacy_metrics, \* the module-level PrivacyMetrics object
    markov_chain,   \* the module-level MarkovChain object
    chaos_generator, \* the module-level ChaosGenerator object
    task,           \* the worker tasks main_async creates, by worker_id
    main_pc,        \* where the main_async coroutine stands
    advanced,       \* history: which workers' ticks advanced which ChaosGenerator
    \* ---- the classes and methods taken on their own ----
    returned,       \* the last call on markov_chain or on privacy_metrics: its name,
                    \* the object before the call, its result
    twins,          \* two ChaosGenerator objects built from the same arguments and
                    \* called alike, with the last call and its two results
    mutated         \* the last call of gen._modify_query_for_frustration and its result

issueVars == <<gen, run_pc, run_local, passed>>

poolVars == <<config, state, privacy_metrics, markov_chain, chaos_generator, task,
              main_pc, advanced>>

unitVars == <<returned, twins, mutated>>

vars == <<gen, run_pc, run_local, passed, config, state, privacy_metrics, markov_chain,
          chaos_generator, task, main_pc, advanced, returned, twins, mutated>>

\* ------------------------------------------------------------------------
\* Bounds of the model
\* ------------------------------------------------------------------------
MaxIssues == 3

MaxSearches == 3

\* config.parallel_workers of the largest pool of the sessions (PoolConfigs)
MaxWorkers == 2

\* the passes of the loop body the workers of a pool begin, all together
\* (the first pass of each worker is not counted against it)
MaxTicks == 3

\* the calls made on one object taken on its own
MaxCalls == 3

\* ------------------------------------------------------------------------
\* Helpers
\* ------------------------------------------------------------------------
Range(s) == {s[i] : i \in DOMAIN s}

Min(a, b) == IF a <= b THEN a ELSE b

\* the values random.random() is drawn from (hundredths, 0 <= u < 100)
RandomDraws == {0, 14, 29, 30, 99}

\* ------------------------------------------------------------------------
\* src/issue_traffic.py: the catalog
\* ------------------------------------------------------------------------
\* class IssueType(Enum): member name -> value
IssueType ==
         ("DNS_FAILURE" :> "dns_failure")
      @@ ("CONNECTION_TIMEOUT" :> "connection_timeout")
      @@ ("SSL_ERROR" :> "ssl_error")
      @@ ("PACKET_LOSS" :> "packet_loss")
      @@ ("BANDWIDTH_THROTTLING" :> "bandwidth_throttling")
      @@ ("PROXY_ERROR" :> "proxy_error")
      @@ ("VPN_ISSUES" :> "vpn_issues")
      @@ ("WIFI_PROBLEMS" :> "wifi_problems")
      @@ ("SLOW_COMPUTER" :> "slow_computer")
      @@ ("HIGH_CPU" :> "high_cpu")
      @@ ("MEMORY_LEAK" :> "memory_leak")
      @@ ("DISK_FULL" :> "disk_full")
      @@ ("DRIVER_ISSUES" :> "driver_issues")
      @@ ("BSOD" :> "bsod")
      @@ ("BOOT_FAILURE" :> "boot_failure")
      @@ ("ADWARE_INFECTION" :> "adware_infection")
      @@ ("BROWSER_HIJACK" :> "browser_hijack")
      @@ ("POPUP_ADS" :> "popup_ads")
      @@ ("CRYPTOMINER" :> "cryptominer")
      @@ ("RANSOMWARE" :> "ransomware")
      @@ ("TROJAN" :> "trojan")
      @@ ("SPYWARE" :> "spyware")
      @@ ("APP_CRASH" :> "app_crash")
      @@ ("UPDATE_FAILURE" :> "update_failure")
      @@ ("PERMISSION_DENIED" :> "permission_denied")
      @@ ("DLL_MISSING" :> "dll_missing")
      @@ ("COMPATIBILITY" :> "compatibility")

ISSUE_PATTERNS ==
       ("DNS_FAILURE" :> [related_issues |-> <<"wifi_problems", "connection_timeout">>, urgency |-> 8,
        frustration_escalation |-> TRUE, search_queries |-> 15,
        support_sites |-> 5, forum_searches |-> 3, tool_downloads |-> 2])
    @@ ("CONNECTION_TIMEOUT" :> [related_issues |-> <<"dns_failure", "packet_loss", "proxy_error">>, urgency |-> 7,
        frustration_escalation |-> TRUE, search_queries |-> 13,
        support_sites |-> 3, forum_searches |-> 2, tool_downloads |-> 3])
    @@ ("SSL_ERROR" :> [related_issues |-> <<"proxy_error", "connection_timeout">>, urgency |-> 6,
        frustration_escalation |-> FALSE, search_queries |-> 14,
        support_sites |-> 4, forum_searches |-> 2, tool_downloads |-> 2])
    @@ ("PACKET_LOSS" :> [related_issues |-> <<"wifi_problems", "bandwidth_throttling">>, urgency |-> 6,
        frustration_escalation |-> TRUE, search_queries |-> 14,
        support_sites |-> 3, forum_searches |-> 2, tool_downloads |-> 2])
    @@ ("WIFI_PROBLEMS" :> [related_issues |-> <<"dns_failure", "connection_timeout", "driver_issues">>, urgency |-> 8,
        frustration_escalation |-> TRUE, search_queries |-> 15,
        support_sites |-> 4, forum_searches |-> 3, tool_downloads |-> 2])
    @@ ("VPN_ISSUES" :> [related_issues |-> <<"proxy_error", "dns_failure", "ssl_error">>, urgency |-> 7,
        frustration_escalation |-> TRUE, search_queries |-> 14,
        support_sites |-> 4, forum_searches |-> 2, tool_downloads |-> 2])
    @@ ("PROXY_ERROR" :> [related_issues |-> <<"connection_timeout", "ssl_error">>, urgency |-> 5,
        frustration_escalation |-> FALSE, search_queries |-> 12,
        support_sites |-> 2, forum_searches |-> 2, tool_downloads |-> 0])
    @@ ("SLOW_COMPUTER" :> [related_issues |-> <<"high_cpu", "memory_leak", "disk_full", "adware_infection">>, urgency |-> 6,
        frustration_escalation |-> TRUE, search_queries |-> 15,
        support_sites |-> 3, forum_searches |-> 3, tool_downloads |-> 3])
    @@ ("HIGH_CPU" :> [related_issues |-> <<"slow_computer", "cryptominer", "memory_leak">>, urgency |-> 7,
        frustration_escalation |-> TRUE, search_queries |-> 14,
        support_sites |-> 3, forum_searches |-> 2, tool_downloads |-> 2])
    @@ ("MEMORY_LEAK" :> [related_issues |-> <<"high_cpu", "slow_computer">>, urgency |-> 6,
        frustration_escalation |-> TRUE, search_queries |-> 14,
        support_sites |-> 2, forum_searches |-> 2, tool_downloads |-> 2])
    @@ ("DISK_FULL" :> [related_issues |-> <<"slow_computer", "update_failure">>, urgency |-> 7,
        frustration_escalation |-> TRUE, search_queries |-> 14,
        support_sites |-> 2, forum_searches |-> 2, tool_downloads |-> 3])
    @@ ("BSOD" :> [related_issues |-> <<"driver_issues", "memory_leak", "high_cpu">>, urgency |-> 9,
        frustration_escalation |-> TRUE, search_queries |-> 15,
        support_sites |-> 3, forum_searches |-> 3, tool_downloads |-> 3])
    @@ ("DRIVER_ISSUES" :> [related_issues |-> <<"bsod", "wifi_problems", "slow_computer">>, urgency |-> 7,
        frustration_escalation |-> TRUE, search_queries |-> 14,
        support_sites |-> 4, forum_searches |-> 2, tool_downloads |-> 2])
    @@ ("ADWARE_INFECTION" :> [related_issues |-> <<"browser_hijack", "popup_ads", "slow_computer">>, urgency |-> 8,
        frustration_escalation |-> TRUE, search_queries |-> 14,
        support_sites |-> 4, forum_searches |-> 2, tool_downloads |-> 3])
    @@ ("BROWSER_HIJACK" :> [related_issues |-> <<"adware_infection", "popup_ads", "spyware">>, urgency |-> 8,
        frustration_escalation |-> TRUE, search_queries |-> 14,
        support_sites |-> 3, forum_searches |-> 2, tool_downloads |-> 2])
    @@ ("POPUP_ADS" :> [related_issues |-> <<"adware_infection", "browser_hijack">>, urgency |-> 7,
        frustration_escalation |-> TRUE, search_queries |-> 14,
        support_sites |-> 3, forum_searches |-> 2, tool_downloads |-> 3])
    @@ ("CRYPTOMINER" :> [related_issues |-> <<"high_cpu", "slow_computer", "trojan">>, urgency |-> 8,
        frustration_escalation |-> TRUE, search_queries |-> 13,
        support_sites |-> 3, forum_searches |-> 2, tool_downloads |-> 2])
    @@ ("RANSOMWARE" :> [related_issues |-> <<"trojan", "spyware">>, urgency |-> 10,
        frustration_escalation |-> TRUE, search_queries |-> 14,
        support_sites |-> 4, forum_searches |-> 2, tool_downloads |-> 3])
    @@ ("TROJAN" :> [related_issues |-> <<"spyware", "cryptominer", "ransomware">>, urgency |-> 9,
        frustration_escalation |-> TRUE, search_queries |-> 14,
        support_sites |-> 3, forum_searches |-> 2, tool_downloads |-> 3])
    @@ ("SPYWARE" :> [related_issues |-> <<"trojan", "browser_hijack", "adware_infection">>, urgency |-> 9,
        frustration_escalation |-> TRUE, search_queries |-> 14,
        support_sites |-> 3, forum_searches |-> 2, tool_downloads |-> 3])
    @@ ("APP_CRASH" :> [related_issues |-> <<"dll_missing", "compatibility", "driver_issues">>, urgency |-> 6,
        frustration_escalation |-> TRUE, search_queries |-> 13,
        support_sites |-> 2, forum_searches |-> 2, tool_downloads |-> 2])
    @@ ("UPDATE_FAILURE" :> [related_issues |-> <<"disk_full", "slow_computer">>, urgency |-> 6,
        frustration_escalation |-> TRUE, search_queries |-> 14,
        support_sites |-> 2, forum_searches |-> 2, tool_downloads |-> 1])
    @@ ("DLL_MISSING" :> [related_issues |-> <<"app_crash", "update_failure">>, urgency |-> 5,
        frustration_escalation |-> FALSE, search_queries |-> 14,
        support_sites |-> 3, forum_searches |-> 2, tool_downloads |-> 2])
    @@ ("COMPATIBILITY" :> [related_issues |-> <<"app_crash", "driver_issues">>, urgency |-> 4,
        frustration_escalation |-> FALSE, search_queries |-> 13,
        support_sites |-> 2, forum_searches |-> 2, tool_downloads |-> 2])
\* IssueType(r): the member whose value is r (ValueError when there is none)
IssueTypeOf(r) ==
    IF \E m \in DOMAIN IssueType : IssueType[m] = r
    THEN CHOOSE m \in DOMAIN IssueType : IssueType[m] = r
    ELSE "ValueError"

\* list(IssueType)
AllIssueTypes ==
    <<"DNS_FAILURE", "CONNECTION_TIMEOUT", "SSL_ERROR", "PACKET_LOSS",
      "BANDWIDTH_THROTTLING", "PROXY_ERROR", "VPN_ISSUES", "WIFI_PROBLEMS",
      "SLOW_COMPUTER", "HIGH_CPU", "MEMORY_LEAK", "DISK_FULL", "DRIVER_ISSUES",
      "BSOD", "BOOT_FAILURE", "ADWARE_INFECTION", "BROWSER_HIJACK", "POPUP_ADS",
      "CRYPTOMINER", "RANSOMWARE", "TROJAN", "SPYWARE", "APP_CRASH",
      "UPDATE_FAILURE", "PERMISSION_DENIED", "DLL_MISSING", "COMPATIBILITY">>

\* random.choice(l) with the draw c (any natural number)
Choice(l, c) == l[(c % Len(l)) + 1]

\* the draws random.choice(l) is given: one for every element of l
ChoiceDraws(l) == 0 .. (IF l = <<>> THEN 0 ELSE Len(l) - 1)

\* ------------------------------------------------------------------------
\* src/issue_traffic.py: IssueTrafficGenerator
\* ------------------------------------------------------------------------
\* the constructor arguments the sessions are built with
\* (issue_types=None becomes list(IssueType); fetch_callback is None or a
\* coroutine function that may raise)
GenConfigs ==
    {[issue_types |-> AllIssueTypes, fetch_callback |-> FALSE,
      frustration_mode |-> TRUE, chaos_factor |-> 100],
     [issue_types |-> <<"WIFI_PROBLEMS", "SLOW_COMPUTER", "ADWARE_INFECTION">>,
      fetch_callback |-> TRUE, frustration_mode |-> TRUE, chaos_factor |-> 30],
     [issue_types |-> <<"WIFI_PROBLEMS", "SLOW_COMPUTER", "ADWARE_INFECTION">>,
      fetch_callback |-> FALSE, frustration_mode |-> FALSE, chaos_factor |-> 0],
     [issue_types |-> <<"HIGH_CPU", "MEMORY_LEAK">>, fetch_callback |-> TRUE,
      frustration_mode |-> TRUE, chaos_factor |-> 100],
     [issue_types |-> <<"HIGH_CPU", "MEMORY_LEAK">>, fetch_callback |-> FALSE,
      frustration_mode |-> TRUE, chaos_factor |-> 0],
     [issue_types |-> <<"PACKET_LOSS", "WIFI_PROBLEMS", "PROXY_ERROR", "DNS_FAILURE">>,
      fetch_callback |-> TRUE, frustration_mode |-> FALSE, chaos_factor |-> 100]}

\* IssueTrafficGenerator.__init__
NewGenerator(c) ==
    [issue_types |-> c.issue_types,
     fetch_callback |-> c.fetch_callback,
     frustration_mode |-> c.frustration_mode,
     chaos_factor |-> c.chaos_factor,
     running |-> FALSE,
     current_issue |-> "None",
     search_count |-> 0,
     total_requests |-> 0,
     stats |-> [issues_simulated |-> <<>>,
                total_searches |-> 0,
                total_requests |-> 0,
                frustration_escalations |-> 0,
                issue_chains |-> 0,
                start_time |-> -1]]

\* RelatedEnabled without the filter on the enabled issue types: the related
\* list taken as it stands
RelatedEnabled_unfiltered(related_issues, issue_types) == related_issues

\* [r for r in pattern.related_issues if IssueType(r) in self.issue_types]
RECURSIVE RelatedEnabled(_, _)
RelatedEnabled(related_issues, issue_types) ==
    IF related_issues = <<>> THEN <<>>
    ELSE IF IssueTypeOf(Head(related_issues)) \in Range(issue_types)
         THEN <<Head(related_issues)>> \o RelatedEnabled(Tail(related_issues), issue_types)
         ELSE RelatedEnabled(Tail(related_issues), issue_types)

\* IssueTrafficGenerator._select_issue, with its draws: u is random.random(),
\* c1 the draw of random.choice(related), c2 that of random.choice(self.issue_types).
\* The result is the returned issue type and the generator after the call.
EnabledRelated(g) ==
    IF g.current_issue # "None"
    THEN RelatedEnabled(ISSUE_PATTERNS[g.current_issue].related_issues, g.issue_types)
    ELSE <<>>

\* _select_issue with the chain taken at the halved probability that
\* simulate_issue uses for leaving an issue
_select_issue_halved(g, u, c1, c2) ==
    LET related == EnabledRelated(g)
    IN  IF g.current_issue # "None" /\ 2 * u < g.chaos_factor /\ related # <<>>
        THEN [issue |-> IssueTypeOf(Choice(related, c1)),
              gen |-> [g EXCEPT !.stats.issue_chains = @ + 1]]
        ELSE [issue |-> Choice(g.issue_types, c2), gen |-> g]

\* _select_issue with the chain taken when random.random() <= chaos_factor
_select_issue_le(g, u, c1, c2) ==
    LET related == EnabledRelated(g)
    IN  IF g.current_issue # "None" /\ u <= g.chaos_factor /\ related # <<>>
        THEN [issue |-> IssueTypeOf(Choice(related, c1)),
              gen |-> [g EXCEPT !.stats.issue_chains = @ + 1]]
        ELSE [issue |-> Choice(g.issue_types, c2), gen |-> g]

\* _select_issue with the global draw taken over list(IssueType) instead of
\* the enabled issue types
_select_issue_catalog(g, u, c1, c2) ==
    LET related == EnabledRelated(g)
    IN  IF g.current_issue # "None" /\ u < g.chaos_factor /\ related # <<>>
        THEN [issue |-> IssueTypeOf(Choice(related, c1)),
              gen |-> [g EXCEPT !.stats.issue_chains = @ + 1]]
        ELSE [issue |-> Choice(AllIssueTypes, c2), gen |-> g]

_select_issue(g, u, c1, c2) ==
    LET related == EnabledRelated(g)
    IN  IF g.current_issue # "None" /\ u < g.chaos_factor /\ related # <<>>
        THEN [issue |-> IssueTypeOf(Choice(related, c1)),
              gen |-> [g EXCEPT !.stats.issue_chains = @ + 1]]
        ELSE [issue |-> Choice(g.issue_types, c2), gen |-> g]

\* IssueTrafficGenerator._get_delay: the generator after the call (the delay
\* itself is only slept on)
_get_delay(g) ==
    IF g.frustration_mode /\ g.search_count > 5
    THEN [g EXCEPT !.stats.frustration_escalations = @ + 1]
    ELSE g

\* A str is the sequence of its pieces: a word, or " " for a space
\* str.strip(): the text without its leading and trailing whitespace
RECURSIVE LStrip(_)
LStrip(s) == IF s # <<>> /\ Head(s) = " " THEN LStrip(Tail(s)) ELSE s

RECURSIVE RStrip(_)
RStrip(s) ==
    IF s # <<>> /\ s[Len(s)] = " " THEN RStrip(SubSeq(s, 1, Len(s) - 1)) ELSE s

Strip(s) == RStrip(LStrip(s))

\* the vocabularies of _modify_query_for_frustration, lines 1116-1137
frustration_prefixes ==
    << <<>>, <<>>, <<>>, <<"how to fix", " ">>, <<"why", " ">>, <<"help", " ">>,
       <<"please help", " ">>, <<"still", " ">>, <<"urgent", " ">> >>

frustration_suffixes ==
    << <<>>, <<>>, <<>>, <<" ", "fix">>, <<" ", "solution">>, <<" ", "not working">>,
       <<" ", "still not working">>, <<" ", "please help">>,
       <<" ", "driving me crazy">>, <<" ", "reddit">>, <<" ", "2024">> >>

\* lines 1142-1143 (search_num > 10)
desperate_prefixes ==
    << <<"please help", " ">>, <<"urgent", " ">>, <<"HELP", " ">>, <<>> >>

desperate_suffixes ==
    << <<" ", "not working">>, <<" ", "STILL broken">>, <<" ", "nothing works">>, <<>> >>

\* the suffixes of the lowest tier without the empty ones
mild_suffixes_always ==
    << <<" ", "fix">>, <<" ", "solution">>, <<" ", "fix">>, <<" ", "solution">> >>

\* line 1149 (3 <= search_num <= 5)
mild_suffixes == << <<>>, <<>>, <<" ", "fix">>, <<" ", "solution">> >>

\* the equally likely (prefix, suffix) draws of the random.choice calls that
\* _modify_query_for_frustration makes at search_num (lines 1140-1149)
TierDraws(search_num) ==
    IF search_num < 3 THEN {<<0, 0>>}
    ELSE IF search_num > 10
         THEN ChoiceDraws(desperate_prefixes) \X ChoiceDraws(desperate_suffixes)
    ELSE IF search_num > 5
         THEN ChoiceDraws(frustration_prefixes) \X ChoiceDraws(frustration_suffixes)
    ELSE {0} \X ChoiceDraws(mild_suffixes)

\* _modify_query_for_frustration without the strip() of the result
_modify_query_for_frustration_unstripped(g, query, search_num, c1, c2) ==
    IF ~g.frustration_mode \/ search_num < 3 THEN query
    ELSE IF search_num > 10
         THEN Choice(desperate_prefixes, c1) \o query \o Choice(desperate_suffixes, c2)
    ELSE IF search_num > 5
         THEN Choice(frustration_prefixes, c1) \o query \o Choice(frustration_suffixes, c2)
    ELSE query \o Choice(mild_suffixes, c2)

\* _modify_query_for_frustration with the escalation starting one search
\* earlier (search_num < 2)
_modify_query_for_frustration_early(g, query, search_num, c1, c2) ==
    IF ~g.frustration_mode \/ search_num < 2 THEN query
    ELSE IF search_num > 10
         THEN Strip(Choice(desperate_prefixes, c1) \o query \o Choice(desperate_suffixes, c2))
    ELSE IF search_num > 5
         THEN Strip(Choice(frustration_prefixes, c1) \o query \o Choice(frustration_suffixes, c2))
    ELSE Strip(query \o Choice(mild_suffixes, c2))

\* IssueTrafficGenerator._modify_query_for_frustration with its draws: c1 is
\* the draw of the random.choice of the prefix, c2 that of the suffix
_modify_query_for_frustration(g, query, search_num, c1, c2) ==
    IF ~g.frustration_mode \/ search_num < 3 THEN query
    ELSE IF search_num > 10
         THEN Strip(Choice(desperate_prefixes, c1) \o query \o Choice(desperate_suffixes, c2))
    ELSE IF search_num > 5
         THEN Strip(Choice(frustration_prefixes, c1) \o query \o Choice(frustration_suffixes, c2))
    ELSE Strip(query \o Choice(mild_suffixes, c2))

\* _visit_url that counts the request in the stats only
_visit_url_stats_only(g) ==
    [g EXCEPT !.stats.total_requests = @ + 1]

\* IssueTrafficGenerator._visit_url up to its await: the two request counters
_visit_url(g) ==
    [g EXCEPT !.total_requests = @ + 1, !.stats.total_requests = @ + 1]

\* the action kinds of simulate_issue (random.choices over five kinds)
ActionKinds == {"search", "support", "forum", "tool", "youtube"}

\* whether an iteration of simulate_issue with this action kind visits a URL
Visits(pattern, action) ==
    \/ action = "search"
    \/ action = "support" /\ pattern.support_sites > 0
    \/ action = "forum" /\ pattern.forum_searches > 0
    \/ action = "tool" /\ pattern.tool_downloads > 0
    \/ action = "youtube"

\* stats["issues_simulated"][v] += 1, the key created at 0 when absent; the dict
\* is kept as its list of (key, count) pairs in insertion order
RECURSIVE CountIssue(_, _)
CountIssue(d, v) ==
    IF d = <<>> THEN << <<v, 1>> >>
    ELSE IF Head(d)[1] = v THEN << <<v, Head(d)[2] + 1>> >> \o Tail(d)
    ELSE <<Head(d)>> \o CountIssue(Tail(d), v)

\* Time passes while a coroutine is suspended: a deadline once passed stays
\* passed, and simulate_issue's end time (now + int(min(draw, remaining)))
\* is never later than run's
Elapse ==
    {p \in [end_time : BOOLEAN, sim_end_time : BOOLEAN] :
        /\ passed.end_time => p.end_time
        /\ passed.sim_end_time => p.sim_end_time
        /\ p.end_time => p.sim_end_time}

\* ---- run(duration_minutes, issues_per_session): lines 1254-1267
Run(duration_minutes, issues_per_session) ==
    /\ run_pc = "idle"
    /\ gen' = [gen EXCEPT !.running = TRUE, !.stats.start_time = 0]
    /\ run_local' = [run_local EXCEPT !.duration_minutes = duration_minutes,
                                      !.issues_simulated = 0,
                                      !.issues_per_session = issues_per_session]
    /\ passed' = [end_time |-> duration_minutes = 0, sim_end_time |-> TRUE]
    /\ run_pc' = "run_loop"

\* what one call of _select_issue can return, over all its draws
SelectOutcomes(g) ==
    {_select_issue(g, u, c1, c2) :
        u \in RandomDraws, c1 \in ChoiceDraws(EnabledRelated(g)),
        c2 \in ChoiceDraws(g.issue_types)}

\* ---- run: the head of its while loop up to the call of simulate_issue
\* (lines 1269-1282); less_than_30 is issue_duration < 30, which is whether
\* less than 30 seconds remain
RunLoop ==
    /\ run_pc = "run_loop"
    /\ IF gen.running /\ ~passed.end_time
       THEN /\ run_local.issues_simulated < MaxIssues
            /\ \E sel \in SelectOutcomes(gen), less_than_30 \in BOOLEAN :
                 /\ gen' = sel.gen
                 /\ IF less_than_30
                    THEN /\ run_pc' = "run_exit"
                         /\ UNCHANGED run_local
                    ELSE /\ run_pc' = "simulate_issue"
                         /\ run_local' = [run_local EXCEPT !.issue_type = sel.issue]
       ELSE /\ run_pc' = "run_exit"
            /\ UNCHANGED <<gen, run_local>>
    /\ UNCHANGED passed

\* simulate_issue entered without self.search_count = 0
SimulateIssue_without_reset ==
    /\ run_pc = "simulate_issue"
    /\ IF run_local.issue_type \notin DOMAIN ISSUE_PATTERNS
       THEN /\ run_pc' = "KeyError"
            /\ UNCHANGED <<gen, passed>>
       ELSE /\ gen' = [gen EXCEPT !.current_issue = run_local.issue_type,
                                  !.stats.issues_simulated =
                                      CountIssue(@, IssueType[run_local.issue_type])]
            /\ passed' = [passed EXCEPT !.sim_end_time = FALSE]
            /\ run_pc' = "sim_loop"
    /\ UNCHANGED run_local

\* ---- simulate_issue: lines 1175-1188 (ISSUE_PATTERNS[issue_type] raises
\* KeyError for a type without an entry; nothing in run catches it)
SimulateIssue ==
    /\ run_pc = "simulate_issue"
    /\ IF run_local.issue_type \notin DOMAIN ISSUE_PATTERNS
       THEN /\ run_pc' = "KeyError"
            /\ UNCHANGED <<gen, passed>>
       ELSE /\ gen' = [gen EXCEPT !.current_issue = run_local.issue_type,
                                  !.search_count = 0,
                                  !.stats.issues_simulated =
                                      CountIssue(@, IssueType[run_local.issue_type])]
            /\ passed' = [passed EXCEPT !.sim_end_time = FALSE]
            /\ run_pc' = "sim_loop"
    /\ UNCHANGED run_local

\* simulate_issue has returned to run: lines 1283-1287
AfterSimulate ==
    /\ run_local' = [run_local EXCEPT !.issues_simulated = @ + 1]
    /\ run_pc' = IF gen.running /\ ~passed'.end_time THEN "pause" ELSE "run_loop"

\* SimLoop with a loop condition that reads the end time only, not
\* self.running
SimLoop_ignores_stop ==
    /\ run_pc = "sim_loop"
    /\ UNCHANGED passed
    /\ IF ~passed.sim_end_time
       THEN /\ gen.stats.total_searches < MaxSearches
            /\ \E action \in ActionKinds :
                 LET pattern == ISSUE_PATTERNS[gen.current_issue]
                     counted == [gen EXCEPT !.search_count = @ + 1,
                                            !.stats.total_searches = @ + 1]
                 IN  IF Visits(pattern, action)
                     THEN IF gen.fetch_callback
                          THEN /\ gen' = _visit_url(counted)
                               /\ run_pc' = "visit_await"
                          ELSE /\ gen' = _get_delay(_visit_url(counted))
                               /\ run_pc' = "sleep"
                     ELSE /\ gen' = _get_delay(counted)
                          /\ run_pc' = "sleep"
            /\ UNCHANGED run_local
       ELSE /\ AfterSimulate
            /\ UNCHANGED gen

\* ---- simulate_issue: one pass of its while loop up to the first await
\* (lines 1190-1236)
SimLoop ==
    /\ run_pc = "sim_loop"
    /\ UNCHANGED passed
    /\ IF gen.running /\ ~passed.sim_end_time
       THEN /\ gen.stats.total_searches < MaxSearches
            /\ \E action \in ActionKinds :
                 LET pattern == ISSUE_PATTERNS[gen.current_issue]
                     counted == [gen EXCEPT !.search_count = @ + 1,
                                            !.stats.total_searches = @ + 1]
                 IN  IF Visits(pattern, action)
                     THEN IF gen.fetch_callback
                          THEN /\ gen' = _visit_url(counted)
                               /\ run_pc' = "visit_await"
                          ELSE /\ gen' = _get_delay(_visit_url(counted))
                               /\ run_pc' = "sleep"
                     ELSE /\ gen' = _get_delay(counted)
                          /\ run_pc' = "sleep"
            /\ UNCHANGED run_local
       ELSE /\ AfterSimulate
            /\ UNCHANGED gen

\* ---- _visit_url: the awaited fetch_callback returns or raises; the
\* exception is caught and printed (lines 1158-1161), then lines 1235-1236
VisitReturn(raised) ==
    /\ run_pc = "visit_await"
    /\ passed' \in Elapse
    /\ gen' = _get_delay(gen)
    /\ run_pc' = "sleep"
    /\ UNCHANGED run_local

\* ---- simulate_issue: asyncio.sleep(delay) returns, then the chance to leave
\* the issue (lines 1236-1240)
SleepReturn ==
    /\ run_pc = "sleep"
    /\ passed' \in Elapse
    /\ \E u \in RandomDraws :
         IF /\ ISSUE_PATTERNS[gen.current_issue].related_issues # <<>>
            /\ 2 * u < gen.chaos_factor
         THEN AfterSimulate
         ELSE /\ run_pc' = "sim_loop"
              /\ UNCHANGED run_local
    /\ UNCHANGED gen

\* ---- run: the pause between two issues is over (lines 1286-1287)
PauseReturn ==
    /\ run_pc = "pause"
    /\ passed' \in Elapse
    /\ run_pc' = "run_loop"
    /\ UNCHANGED <<gen, run_local>>

\* ---- run: after its loop (lines 1289-1290)
RunExit ==
    /\ run_pc = "run_exit"
    /\ gen' = [gen EXCEPT !.running = FALSE]
    /\ run_pc' = "done"
    /\ UNCHANGED <<run_local, passed>>

\* ---- stop(), called by another coroutine while run is suspended
Stop ==
    /\ run_pc \in {"visit_await", "sleep", "pause"}
    /\ gen.running
    /\ gen' = [gen EXCEPT !.running = FALSE]
    /\ UNCHANGED <<run_pc, run_local, passed>>

\* the generator of a process that runs the worker pool only
IssueIdle ==
    /\ gen = NewGenerator(CHOOSE c \in GenConfigs : c.chaos_factor = 30)
    /\ run_pc = "idle"
    /\ run_local = [duration_minutes |-> 0, issues_simulated |-> 0,
                    issues_per_session |-> 0, issue_type |-> "None"]
    /\ passed = [end_time |-> FALSE, sim_end_time |-> FALSE]

\* ------------------------------------------------------------------------
\* src/traffic_noise.py: the catalogs
\* ------------------------------------------------------------------------
\* the keys of NEWS_SITES (every key has a nonempty list of sites)
NEWS_SITES ==
    {"Lifestyle", "World", "Technology", "Health", "Trending", "SocialNetworkAds",
     "LeftLeaning", "RightLeaning", "Tabloids", "Hobbies", "SocialMedia", "Privacy",
     "NetworkingIssues", "HardwareIssues", "SoftwareIssues", "MalwareIssues",
     "MisconfiguredSettings"}

BROWSING_PATTERNS == <<"normal", "bursty", "slow", "erratic", "scanner">>

\* USER_AGENTS: 24 strings in the source, of which the model keeps one
USER_AGENTS == {"ua0"}

\* category_transitions with the Lifestyle row short of 1 by 0.1 and the
\* World row all zero
category_transitions_unnormalised ==
    [Lifestyle |-> << <<"Lifestyle", 30>>, <<"World", 15>>, <<"Technology", 15>>,
                      <<"Health", 15>>, <<"Trending", 15>>, <<"SocialMedia", 0>> >>,
     World |-> << <<"Lifestyle", 0>>, <<"World", 0>>, <<"Technology", 0>>,
                  <<"Health", 0>>, <<"Trending", 0>>, <<"SocialMedia", 0>> >>,
     Technology |-> << <<"Lifestyle", 10>>, <<"World", 15>>, <<"Technology", 35>>,
                       <<"Health", 10>>, <<"Trending", 15>>, <<"SocialMedia", 15>> >>,
     Health |-> << <<"Lifestyle", 20>>, <<"World", 15>>, <<"Technology", 10>>,
                   <<"Health", 35>>, <<"Trending", 10>>, <<"SocialMedia", 10>> >>,
     Trending |-> << <<"Lifestyle", 15>>, <<"World", 20>>, <<"Technology", 15>>,
                     <<"Health", 10>>, <<"Trending", 25>>, <<"SocialMedia", 15>> >>,
     SocialMedia |-> << <<"Lifestyle", 15>>, <<"World", 15>>, <<"Technology", 20>>,
                        <<"Health", 10>>, <<"Trending", 15>>, <<"SocialMedia", 25>> >>]

\* category_transitions with a Lifestyle row that also leads to "Privacy", a
\* category that has no row of its own
category_transitions_open ==
    [Lifestyle |-> << <<"Lifestyle", 30>>, <<"World", 15>>, <<"Technology", 15>>,
                      <<"Health", 15>>, <<"Trending", 15>>, <<"Privacy", 10>> >>,
     World |-> << <<"Lifestyle", 10>>, <<"World", 35>>, <<"Technology", 15>>,
                  <<"Health", 10>>, <<"Trending", 20>>, <<"SocialMedia", 10>> >>,
     Technology |-> << <<"Lifestyle", 10>>, <<"World", 15>>, <<"Technology", 35>>,
                       <<"Health", 10>>, <<"Trending", 15>>, <<"SocialMedia", 15>> >>,
     Health |-> << <<"Lifestyle", 20>>, <<"World", 15>>, <<"Technology", 10>>,
                   <<"Health", 35>>, <<"Trending", 10>>, <<"SocialMedia", 10>> >>,
     Trending |-> << <<"Lifestyle", 15>>, <<"World", 20>>, <<"Technology", 15>>,
                     <<"Health", 10>>, <<"Trending", 25>>, <<"SocialMedia", 15>> >>,
     SocialMedia |-> << <<"Lifestyle", 15>>, <<"World", 15>>, <<"Technology", 20>>,
                        <<"Health", 10>>, <<"Trending", 15>>, <<"SocialMedia", 25>> >>]

\* MarkovChain.category_transitions: row key -> the row in dict order, weights
\* in hundredths
category_transitions ==
    [Lifestyle |-> << <<"Lifestyle", 30>>, <<"World", 15>>, <<"Technology", 15>>,
                      <<"Health", 15>>, <<"Trending", 15>>, <<"SocialMedia", 10>> >>,
     World |-> << <<"Lifestyle", 10>>, <<"World", 35>>, <<"Technology", 15>>,
                  <<"Health", 10>>, <<"Trending", 20>>, <<"SocialMedia", 10>> >>,
     Technology |-> << <<"Lifestyle", 10>>, <<"World", 15>>, <<"Technology", 35>>,
                       <<"Health", 10>>, <<"Trending", 15>>, <<"SocialMedia", 15>> >>,
     Health |-> << <<"Lifestyle", 20>>, <<"World", 15>>, <<"Technology", 10>>,
                   <<"Health", 35>>, <<"Trending", 10>>, <<"SocialMedia", 10>> >>,
     Trending |-> << <<"Lifestyle", 15>>, <<"World", 20>>, <<"Technology", 15>>,
                     <<"Health", 10>>, <<"Trending", 25>>, <<"SocialMedia", 15>> >>,
     SocialMedia |-> << <<"Lifestyle", 15>>, <<"World", 15>>, <<"Technology", 20>>,
                        <<"Health", 10>>, <<"Trending", 15>>, <<"SocialMedia", 25>> >>]

\* MarkovChain.pattern_transitions
pattern_transitions ==
    [normal |-> << <<"normal", 60>>, <<"bursty", 15>>, <<"slow", 15>>, <<"erratic", 10>> >>,
     bursty |-> << <<"normal", 20>>, <<"bursty", 50>>, <<"slow", 10>>, <<"erratic", 20>> >>,
     slow |-> << <<"normal", 30>>, <<"bursty", 10>>, <<"slow", 50>>, <<"erratic", 10>> >>,
     erratic |-> << <<"normal", 15>>, <<"bursty", 25>>, <<"slow", 10>>, <<"erratic", 50>> >>]

\* list(table.keys()), in dict order
CategoryKeys == <<"Lifestyle", "World", "Technology", "Health", "Trending", "SocialMedia">>

PatternKeys == <<"normal", "bursty", "slow", "erratic">>

\* ------------------------------------------------------------------------
\* src/traffic_noise.py: random draws
\* ------------------------------------------------------------------------
\* the values u of random.random() that random.choices(keys, weights) is
\* given, in hundredths: one that falls on an early key of a row, one that
\* falls on its last key
CursorDraws == {30, 95}

RECURSIVE RowTotal(_)
RowTotal(row) == IF row = <<>> THEN 0 ELSE Head(row)[2] + RowTotal(Tail(row))

\* the key found by bisecting the cumulative weights at target (hi = n - 1)
RECURSIVE Bisect(_, _)
Bisect(row, target) ==
    IF Len(row) = 1 \/ target < 100 * Head(row)[2] THEN Head(row)[1]
    ELSE Bisect(Tail(row), target - 100 * Head(row)[2])

\* random.choices(keys, weights=probabilities, k=1)[0] with the draw u:
\* the first key whose cumulative weight exceeds u * total
WeightedChoice(row, u) == Bisect(row, u * RowTotal(row))

\* ------------------------------------------------------------------------
\* src/traffic_noise.py: MarkovChain
\* ------------------------------------------------------------------------
\* table.get(key, {})
RowOf(table, key) == IF key \in DOMAIN table THEN table[key] ELSE <<>>

\* next_category that indexes the table with the cursor (table[key]
\* instead of table.get(key, {})): a cursor without a row is a KeyError
next_category_strict(mc, u, c) ==
    IF mc.current_category \in DOMAIN category_transitions
    THEN [mc EXCEPT !.current_category =
                        WeightedChoice(category_transitions[mc.current_category], u)]
    ELSE [mc EXCEPT !.current_category = "KeyError"]

\* MarkovChain.next_category with its draws (u for random.choices, c for the
\* random.choice of the fallback): the chain after the call; the value
\* returned is its current_category
next_category(mc, u, c) ==
    LET transitions == RowOf(category_transitions, mc.current_category)
    IN  IF transitions = <<>>
        THEN [mc EXCEPT !.current_category = Choice(CategoryKeys, c)]
        ELSE [mc EXCEPT !.current_category = WeightedChoice(transitions, u)]

\* next_pattern that draws the category cursor anew as well
next_pattern_coupled(mc, u, c) ==
    LET transitions == RowOf(pattern_transitions, mc.current_pattern)
    IN  IF transitions = <<>>
        THEN [current_category |-> Choice(CategoryKeys, c),
              current_pattern |-> Choice(PatternKeys, c)]
        ELSE [current_category |-> Choice(CategoryKeys, c),
              current_pattern |-> WeightedChoice(transitions, u)]

\* MarkovChain.next_pattern
next_pattern(mc, u, c) ==
    LET transitions == RowOf(pattern_transitions, mc.current_pattern)
    IN  IF transitions = <<>>
        THEN [mc EXCEPT !.current_pattern = Choice(PatternKeys, c)]
        ELSE [mc EXCEPT !.current_pattern = WeightedChoice(transitions, u)]

\* ------------------------------------------------------------------------
\* src/traffic_noise.py: ChaosGenerator (r in hundredths, x in thousandths,
\* delays in milliseconds)
\* ------------------------------------------------------------------------
\* ChaosGenerator.__init__ that starts from random.random() whatever seed
\* it is given
ChaosGenerator_unseeded(r, seed, u) == [r |-> r, x |-> u, iteration |-> 0]

\* ChaosGenerator.__init__: seed is <<>> for None and <<s>> for the float s,
\* u is random.random() * 0.5 + 0.25, taken where seed is None or 0.0
ChaosGenerator(r, seed, u) ==
    [r |-> r,
     x |-> IF seed # <<>> /\ seed[1] # 0 THEN seed[1] ELSE u,
     iteration |-> 0]

\* ChaosGenerator.logistic_map: the generator after the call
logistic_map(g) ==
    [g EXCEPT !.x = (g.r * g.x * (1000 - g.x)) \div 100000, !.iteration = @ + 1]

\* 1000 * sin(0.1 * i), rounded, for i = 1 .. 40
SinTable ==
    <<
      100, 199, 296, 389, 479, 565, 644, 717, 783, 841,
      891, 932, 964, 985, 997, 1000, 992, 974, 946, 909,
      863, 808, 746, 675, 598, 516, 427, 335, 239, 141,
      42, -58, -158, -256, -351, -443, -530, -612, -688, -757 >>

SinMilli(i) == IF i \in DOMAIN SinTable THEN SinTable[i] ELSE 0

Max(a, b) == IF a >= b THEN a ELSE b

\* get_chaos_delay without the clamp of the product to [0.1, 1.0]
get_chaos_delay_unclamped(g, min_delay, max_delay) ==
    LET after == logistic_map(g)
        time_factor == (SinMilli(after.iteration) * 3) \div 10 + 1000
        normalized == (after.x * time_factor) \div 1000
    IN  [chaos |-> after,
         delay |-> 1000 * min_delay + (max_delay - min_delay) * normalized]

\* ChaosGenerator.get_chaos_delay: the generator after the call and the delay
get_chaos_delay(g, min_delay, max_delay) ==
    LET after == logistic_map(g)
        time_factor == (SinMilli(after.iteration) * 3) \div 10 + 1000
        normalized == Max(100, Min(1000, (after.x * time_factor) \div 1000))
    IN  [chaos |-> after,
         delay |-> 1000 * min_delay + (max_delay - min_delay) * normalized]

\* ChaosGenerator.should_switch_behavior: the generator after the call and
\* the answer
should_switch_behavior(g, base_probability) ==
    LET after == logistic_map(g)
    IN  [chaos |-> after, switch |-> after.x < 10 * base_probability]

\* ------------------------------------------------------------------------
\* src/traffic_noise.py: PrivacyMetrics
\* ------------------------------------------------------------------------
\* values[-100:]
LastHundred(values) ==
    IF Len(values) > 100 THEN SubSeq(values, Len(values) - 99, Len(values)) ELSE values

\* PrivacyMetrics.record_request
record_request(pm, user_agent, category, delay) ==
    [pm EXCEPT !.unique_user_agents = @ \cup {user_agent},
               !.unique_categories = @ \cup {category},
               !.timing_samples = LastHundred(Append(@, delay)),
               !.request_count = @ + 1]

\* PrivacyMetrics.record_identity_change
record_identity_change(pm) == [pm EXCEPT !.identity_changes = @ + 1]

\* 1000 * log2(n), rounded, for n = 1 .. 104
Log2Table ==
    <<
      0, 1000, 1585, 2000, 2322, 2585, 2807, 3000, 3170, 3322,
      3459, 3585, 3700, 3807, 3907, 4000, 4087, 4170, 4248, 4322,
      4392, 4459, 4524, 4585, 4644, 4700, 4755, 4807, 4858, 4907,
      4954, 5000, 5044, 5087, 5129, 5170, 5209, 5248, 5285, 5322,
      5358, 5392, 5426, 5459, 5492, 5524, 5555, 5585, 5615, 5644,
      5672, 5700, 5728, 5755, 5781, 5807, 5833, 5858, 5883, 5907,
      5931, 5954, 5977, 6000, 6022, 6044, 6066, 6087, 6109, 6129,
      6150, 6170, 6190, 6209, 6229, 6248, 6267, 6285, 6304, 6322,
      6340, 6358, 6375, 6392, 6409, 6426, 6443, 6459, 6476, 6492,
      6508, 6524, 6539, 6555, 6570, 6585, 6600, 6615, 6629, 6644,
      6658, 6672, 6687, 6700 >>

\* the sum of count * log2(count) over the distinct values of the list, in
\* thousandths: every element from lo to hi adds the log2 of the count of
\* its value
RECURSIVE CountLogs(_, _, _)
CountLogs(values, lo, hi) ==
    IF lo > hi THEN 0
    ELSE IF lo = hi
         THEN Log2Table[Cardinality({i \in DOMAIN values : values[i] = values[lo]})]
    ELSE LET mid == (lo + hi) \div 2
         IN  CountLogs(values, lo, mid) + CountLogs(values, mid + 1, hi)

\* PrivacyMetrics.calculate_entropy, in thousandths of a bit: the sum of
\* -p * log2(p) over the counts is log2(total) - sum(count * log2(count)) / total
calculate_entropy(values) ==
    IF values = <<>> THEN 0
    ELSE Log2Table[Len(values)] - CountLogs(values, 1, Len(values)) \div Len(values)

\* get_confusion_score with the identity score left unclamped
get_confusion_score_unclamped(pm) ==
    LET ua_score == Min(Cardinality(pm.unique_user_agents) * 5, 30)
        cat_score == Min(Cardinality(pm.unique_categories) * 3, 20)
        timing_entropy ==
            calculate_entropy([i \in DOMAIN pm.timing_samples |->
                                  pm.timing_samples[i] \div 1000])
        timing_score == Min(timing_entropy * 10, 25000)
        identity_score == pm.identity_changes * 2
    IN  (1000 * (ua_score + cat_score + identity_score) + timing_score) \div 1000

\* PrivacyMetrics.get_confusion_score: the samples are delays in
\* milliseconds, int(t) their whole seconds; the sum is kept in thousandths
\* and int() drops the fraction
get_confusion_score(pm) ==
    LET ua_score == Min(Cardinality(pm.unique_user_agents) * 5, 30)
        cat_score == Min(Cardinality(pm.unique_categories) * 3, 20)
        timing_entropy ==
            calculate_entropy([i \in DOMAIN pm.timing_samples |->
                                  pm.timing_samples[i] \div 1000])
        timing_score == Min(timing_entropy * 10, 25000)
        identity_score == Min(pm.identity_changes * 2, 25)
    IN  (1000 * (ua_score + cat_score + identity_score) + timing_score) \div 1000

\* ------------------------------------------------------------------------
\* src/traffic_noise.py: Config and get_random_news_url
\* ------------------------------------------------------------------------
\* Config(), the dataclass defaults (the fields the engine reads)
DefaultConfig ==
    [mode |-> "news", vps_target |-> "None", chaos_mode |-> FALSE,
     parallel_workers |-> 3, duration |-> 0, simulate_issues |-> "None",
     use_markov |-> TRUE, include_political |-> FALSE, include_tabloids |-> FALSE,
     include_social |-> FALSE, include_privacy |-> FALSE, include_hobbies |-> FALSE,
     persona |-> "None", scheduled_profile |-> FALSE, inject_decoys |-> FALSE]

\* the configurations main() builds for the sessions of the model
PoolConfigs ==
    {[DefaultConfig EXCEPT !.parallel_workers = 1, !.persona = "privacy_advocate"],
     [DefaultConfig EXCEPT !.parallel_workers = 2, !.chaos_mode = TRUE,
                           !.duration = 1, !.persona = "privacy_advocate"],
     [DefaultConfig EXCEPT !.parallel_workers = 1, !.chaos_mode = TRUE,
                           !.use_markov = FALSE, !.persona = "privacy_advocate"],
     [DefaultConfig EXCEPT !.parallel_workers = MaxWorkers, !.mode = "vps",
                           !.vps_target = "10.0.0.1:8080", !.duration = 1]}

issue_map ==
    [networking |-> {"NetworkingIssues"}, hardware |-> {"HardwareIssues"},
     software |-> {"SoftwareIssues"}, malware |-> {"MalwareIssues"},
     misconfigured |-> {"MisconfiguredSettings"},
     mixed |-> {"NetworkingIssues", "HardwareIssues", "SoftwareIssues",
                "MalwareIssues", "MisconfiguredSettings"}]

persona_map ==
    [tech_enthusiast |-> {"Technology", "Privacy", "Hobbies"},
     news_junkie |-> {"World", "Trending", "LeftLeaning", "RightLeaning"},
     privacy_advocate |-> {"Privacy", "Technology"},
     social_butterfly |-> {"SocialMedia", "Lifestyle", "Trending"},
     entertainment_seeker |-> {"Tabloids", "SocialMedia", "Lifestyle"},
     health_conscious |-> {"Health", "Lifestyle", "Hobbies"},
     political_observer |-> {"LeftLeaning", "RightLeaning", "World"},
     hobbyist |-> {"Hobbies", "Technology", "Lifestyle"},
     troubleshooter |-> {"NetworkingIssues", "HardwareIssues", "SoftwareIssues",
                         "MalwareIssues"}]

\* ScheduledProfile.PROFILES[name]["categories"]
PROFILES ==
    [work_hours |-> {"Technology", "World", "Trending"},
     evening |-> {"Lifestyle", "SocialMedia", "Tabloids", "Hobbies"},
     night |-> {"Technology", "Privacy"},
     weekend |-> {"Hobbies", "SocialMedia", "Lifestyle", "Tabloids"}]

\* get_random_news_url: the list `available` (its elements; the random.choice
\* over it is a choice of one of them); profile is what
\* ScheduledProfile.get_current_profile() returns at the time of the call
Available(cfg, profile) ==
    LET base == {"Lifestyle", "World", "Technology", "Health", "Trending", "SocialNetworkAds"}
                \cup (IF cfg.include_political THEN {"LeftLeaning", "RightLeaning"} ELSE {})
                \cup (IF cfg.include_tabloids THEN {"Tabloids"} ELSE {})
                \cup (IF cfg.include_social THEN {"SocialMedia"} ELSE {})
                \cup (IF cfg.include_privacy THEN {"Privacy"} ELSE {})
                \cup (IF cfg.include_hobbies THEN {"Hobbies"} ELSE {})
        personal == IF cfg.persona \in DOMAIN persona_map
                    THEN persona_map[cfg.persona] ELSE base
        scheduled == IF cfg.scheduled_profile
                     THEN PROFILES[profile] \cap NEWS_SITES ELSE personal
        kept == scheduled \cap NEWS_SITES
    IN  IF kept = {} THEN NEWS_SITES ELSE kept

\* the draws of one call of get_random_news_url: u_issue and issue_cat for the
\* issue branch, profile for the scheduled profile, u_markov and c_markov for
\* next_category, any_cat for random.choice(available), u_decoy for the decoy
NewsDraws(cfg) ==
    [u_issue : IF cfg.simulate_issues \in DOMAIN issue_map THEN {29, 30} ELSE {99},
     issue_cat : IF cfg.simulate_issues \in DOMAIN issue_map
                 THEN issue_map[cfg.simulate_issues] ELSE {"None"},
     profile : IF cfg.scheduled_profile THEN DOMAIN PROFILES ELSE {"evening"},
     u_markov : IF cfg.use_markov /\ cfg.chaos_mode THEN CursorDraws ELSE {0},
     c_markov : {0},
     any_cat : UNION {Available(cfg, p) : p \in DOMAIN PROFILES},
     u_decoy : IF cfg.inject_decoys THEN {9, 10} ELSE {99}]

\* get_random_news_url that advances the chain whenever config.use_markov is
\* set, whatever config.chaos_mode is
get_random_news_url_unguarded(cfg, mc, use_markov, d) ==
    LET available == Available(cfg, d.profile)
        any == IF d.any_cat \in available THEN d.any_cat ELSE CHOOSE c \in available : TRUE
        stepped == next_category(mc, d.u_markov, d.c_markov)
        decoy(c) == IF cfg.inject_decoys /\ d.u_decoy < 10 THEN "Decoy" ELSE c
    IN  IF /\ cfg.simulate_issues \in DOMAIN issue_map
           /\ d.u_issue < 30
           /\ d.issue_cat \in NEWS_SITES
        THEN [category |-> d.issue_cat, markov_chain |-> mc]
        ELSE IF cfg.use_markov
             THEN [category |-> decoy(IF stepped.current_category \in available
                                      THEN stepped.current_category ELSE any),
                   markov_chain |-> stepped]
             ELSE [category |-> decoy(any), markov_chain |-> mc]

\* get_random_news_url that fetches from the category the chain sampled,
\* enabled or not
get_random_news_url_unchecked(cfg, mc, use_markov, d) ==
    LET available == Available(cfg, d.profile)
        any == IF d.any_cat \in available THEN d.any_cat ELSE CHOOSE c \in available : TRUE
        stepped == next_category(mc, d.u_markov, d.c_markov)
        decoy(c) == IF cfg.inject_decoys /\ d.u_decoy < 10 THEN "Decoy" ELSE c
    IN  IF /\ cfg.simulate_issues \in DOMAIN issue_map
           /\ d.u_issue < 30
           /\ d.issue_cat \in NEWS_SITES
        THEN [category |-> d.issue_cat, markov_chain |-> mc]
        ELSE IF use_markov /\ cfg.chaos_mode
             THEN [category |-> decoy(stepped.current_category),
                   markov_chain |-> stepped]
             ELSE [category |-> decoy(any), markov_chain |-> mc]

\* get_random_news_url(cfg, use_markov) with its draws d: the category
\* returned and the Markov chain after the call
get_random_news_url(cfg, mc, use_markov, d) ==
    LET available == Available(cfg, d.profile)
        any == IF d.any_cat \in available THEN d.any_cat ELSE CHOOSE c \in available : TRUE
        stepped == next_category(mc, d.u_markov, d.c_markov)
        decoy(c) == IF cfg.inject_decoys /\ d.u_decoy < 10 THEN "Decoy" ELSE c
    IN  IF /\ cfg.simulate_issues \in DOMAIN issue_map
           /\ d.u_issue < 30
           /\ d.issue_cat \in NEWS_SITES
        THEN [category |-> d.issue_cat, markov_chain |-> mc]
        ELSE IF use_markov /\ cfg.chaos_mode
             THEN [category |-> decoy(IF stepped.current_category \in available
                                      THEN stepped.current_category ELSE any),
                   markov_chain |-> stepped]
             ELSE [category |-> decoy(any), markov_chain |-> mc]

\* get_pattern_delay's table of (min, max) seconds; bursty is one of two
\* ranges by a draw of its own
PatternRange(pattern, u_bursty) ==
    CASE pattern = "normal" -> <<5, 30>>
      [] pattern = "bursty" -> IF u_bursty < 70 THEN <<1, 3>> ELSE <<30, 90>>
      [] pattern = "slow" -> <<45, 180>>
      [] pattern = "erratic" -> <<1, 120>>
      [] pattern = "scanner" -> <<1, 5>>
      [] OTHER -> <<3, 45>>

\* get_pattern_delay(pattern, chaos, use_chaos_math) with its draws: the
\* module-level chaos_generator after the call and the delay in milliseconds
\* (end is which end of random.uniform's range is drawn)
get_pattern_delay(pattern, chaos, use_chaos_math, cg, u_bursty, end) ==
    IF chaos /\ use_chaos_math
    THEN get_chaos_delay(cg, 1, 120)
    ELSE IF chaos
         THEN [chaos |-> cg, delay |-> 1000 * <<1, 120>>[end]]
         ELSE [chaos |-> cg, delay |-> 1000 * PatternRange(pattern, u_bursty)[end]]

\* ------------------------------------------------------------------------
\* src/traffic_noise.py: the module-level objects and the worker pool
\* ------------------------------------------------------------------------
\* range(config.parallel_workers)
Workers == 0 .. config.parallel_workers - 1

\* AppState()
AppState == [request_count |-> 0, workers_active |-> 0, last_category |-> "",
             running |-> TRUE, errors |-> 0]

\* PrivacyMetrics.__init__
PrivacyMetrics ==
    [unique_user_agents |-> {}, unique_categories |-> {}, timing_samples |-> <<>>,
     request_count |-> 0, identity_changes |-> 0]

\* MarkovChain.__init__: both cursors are drawn by random.choice
MarkovChain(category, pattern) == [current_category |-> category, current_pattern |-> pattern]

\* the cursors random.choice draws in MarkovChain.__init__ that the model draws
MarkovStartCategories == {"Lifestyle"}

MarkovStartPatterns == {"normal"}

\* the patterns random.choice(BROWSING_PATTERNS) draws that the model draws
PatternDraws == {BROWSING_PATTERNS[1]}

\* the seeds random.random() * 0.5 + 0.25 of ChaosGenerator.__init__ that the
\* model draws, in thousandths
SeedDraws == {500}

\* a task of asyncio.create_task(worker(i, ...)) that has not run yet; pc is
\* the await the coroutine is suspended at, must_cancel is Task.cancel()
\* requested and not yet delivered, ticks counts the passes of the loop body
\* begun, left_at records the pc at which the worker left its loop
NewTask ==
    [pc |-> "created", pattern |-> "None", worker_chaos |-> ChaosGenerator(0, <<>>, 0),
     category |-> "", must_cancel |-> FALSE, ticks |-> 0, left_at |-> "None"]

\* the objects a step of a worker reads and writes
World ==
    [state |-> state, privacy_metrics |-> privacy_metrics, markov_chain |-> markov_chain,
     chaos_generator |-> chaos_generator, task |-> task, advanced |-> advanced]

Commit(wd) ==
    /\ state' = wd.state
    /\ privacy_metrics' = wd.privacy_metrics
    /\ markov_chain' = wd.markov_chain
    /\ chaos_generator' = wd.chaos_generator
    /\ task' = wd.task
    /\ advanced' = wd.advanced

\* build_headers: the one effect on the shared objects
build_headers(wd, ua) ==
    [wd EXCEPT !.privacy_metrics = record_request(@, ua, "", 0)]

\* the most workers main allows: min(max(args.workers, 1), 30)
WorkerLimit == 30

\* the r of a worker's own ChaosGenerator, 3.85 + worker_id * 0.01, in
\* hundredths
WorkerR(worker_id) == 385 + worker_id

\* worker, lines 1090-1095
WorkerPrologue(wd, w, pattern, seed) ==
    [wd EXCEPT !.state.workers_active = @ + 1,
               !.task[w].pattern = pattern,
               !.task[w].worker_chaos = ChaosGenerator(WorkerR(w), <<>>, seed)]

\* worker, line 1140, reached from pc at (the loop condition or a break)
WorkerExit(wd, w, at) ==
    [wd EXCEPT !.state.workers_active = @ - 1,
               !.task[w].pc = "done",
               !.task[w].left_at = at]

\* worker, lines 1098-1111 and the head of fetch_url / connect_to_vps: the
\* loop condition and the pass of the body up to its first await
TickBegin(wd, w, cfg, ua, d) ==
    IF ~wd.state.running THEN WorkerExit(wd, w, "top")
    ELSE IF cfg.mode = "vps" /\ cfg.vps_target # "None"
    THEN [build_headers(wd, ua) EXCEPT !.task[w].pc = "vps_https",
                                       !.task[w].ticks = @ + 1]
    ELSE LET got == get_random_news_url(cfg, wd.markov_chain,
                                        cfg.chaos_mode /\ cfg.use_markov, d)
         IN  [build_headers(wd, ua) EXCEPT !.markov_chain = got.markov_chain,
                                           !.state.last_category = got.category,
                                           !.task[w].category = got.category,
                                           !.task[w].pc = "fetch",
                                           !.task[w].ticks = @ + 1]

\* the draws of the tail of a tick: refresh_raises is whether
\* update_display / live.refresh raises, u_bursty and end those of
\* get_pattern_delay, u_pattern and c_pattern those of next_pattern, u_switch
\* and new_pattern those of lines 1129-1130.  A draw the code does not make
\* on a path has one value there.
TailDraws(cfg) ==
    LET unused == [refresh_raises |-> FALSE, u_bursty |-> 0, end |-> 1, u_pattern |-> 0,
                   c_pattern |-> 0, u_switch |-> 99, new_pattern |-> "normal"]
        timed == IF cfg.chaos_mode THEN {unused}
                 ELSE {[unused EXCEPT !.u_bursty = u] : u \in {69, 70}}
        switched == IF ~cfg.chaos_mode THEN timed
                    ELSE {[d EXCEPT !.u_pattern = u] :
                             d \in timed,
                             u \in IF cfg.use_markov THEN CursorDraws ELSE {0}}
                         \cup {[d EXCEPT !.u_switch = 9, !.new_pattern = p] :
                                  d \in timed, p \in PatternDraws}
    IN  {[unused EXCEPT !.refresh_raises = TRUE]} \cup switched

\* worker, lines 1119-1132 and 1136-1138: from the display refresh to the
\* await of the end-of-tick sleep, or to that of the error handler
TickTail(wd, w, cfg, d) ==
    IF d.refresh_raises
    THEN [wd EXCEPT !.state.errors = @ + 1, !.task[w].pc = "errsleep"]
    ELSE LET t == wd.task[w]
             use_chaos_math == cfg.chaos_mode /\ cfg.use_markov
             timed == get_pattern_delay(t.pattern, cfg.chaos_mode, use_chaos_math,
                                        wd.chaos_generator, d.u_bursty, d.end)
             asked == IF use_chaos_math
                      THEN should_switch_behavior(t.worker_chaos, 15)
                      ELSE [chaos |-> t.worker_chaos, switch |-> FALSE]
             stepped == next_pattern(wd.markov_chain, d.u_pattern, d.c_pattern)
             w1 == [wd EXCEPT !.chaos_generator = timed.chaos,
                              !.advanced.chaos_generator =
                                  IF use_chaos_math THEN @ \cup {w} ELSE @,
                              !.privacy_metrics.timing_samples = Append(@, timed.delay),
                              !.task[w].worker_chaos = asked.chaos,
                              !.advanced.worker_chaos[w] =
                                  IF use_chaos_math THEN @ \cup {w} ELSE @,
                              !.task[w].pc = "cooldown"]
         IN  IF cfg.chaos_mode /\ asked.switch
             THEN [w1 EXCEPT !.markov_chain = stepped,
                             !.task[w].pattern = stepped.current_pattern,
                             !.privacy_metrics = record_identity_change(@)]
             ELSE IF cfg.chaos_mode /\ d.u_switch < 10
                  THEN [w1 EXCEPT !.task[w].pattern = d.new_pattern]
                  ELSE w1

\* FetchEnd with a failure that is not counted
FetchEnd_uncounted(wd, w, ok, ua) ==
    LET counted == IF ok THEN [wd EXCEPT !.state.request_count = @ + 1] ELSE wd
    IN  [counted EXCEPT !.privacy_metrics = record_request(@, ua, wd.task[w].category, 0)]

\* FetchEnd with a failure that advances the module-level ChaosGenerator (a
\* back-off drawn from it)
FetchEnd_backoff(wd, w, ok, ua) ==
    LET counted == IF ok THEN [wd EXCEPT !.state.request_count = @ + 1]
                         ELSE [wd EXCEPT !.state.errors = @ + 1,
                                         !.chaos_generator = logistic_map(@)]
    IN  [counted EXCEPT !.privacy_metrics = record_request(@, ua, wd.task[w].category, 0)]

\* fetch_url, lines 994-998, and worker, lines 1113-1117: the await of
\* client.get returns (ok) or raises an Exception
FetchEnd(wd, w, ok, ua) ==
    LET counted == IF ok THEN [wd EXCEPT !.state.request_count = @ + 1]
                         ELSE [wd EXCEPT !.state.errors = @ + 1]
    IN  [counted EXCEPT !.privacy_metrics = record_request(@, ua, wd.task[w].category, 0)]

\* connect_to_vps, lines 1005-1013, and worker, lines 1105-1106: the await of
\* the https attempt, then that of the http attempt
VpsEnd(wd, w, ok) ==
    IF ok
    THEN [wd EXCEPT !.state.request_count = @ + 1, !.state.last_category = "VPS"]
    ELSE [wd EXCEPT !.state.errors = @ + 1, !.state.last_category = "VPS"]

\* ------------------------------------------------------------------------
\* The classes and methods taken on their own: nothing called yet
\* ------------------------------------------------------------------------
NoCall == [op |-> "None", before |-> MarkovChain("", ""), value |-> "", calls |-> 0]

NoTwins ==
    [seed |-> <<>>, a |-> ChaosGenerator(0, <<>>, 0), b |-> ChaosGenerator(0, <<>>, 0),
     op |-> <<"None">>, out_a |-> "None", out_b |-> "None", calls |-> 0]

NoQuery == [query |-> <<>>, search_num |-> 0, result |-> <<>>]

UnitIdle ==
    /\ returned = NoCall
    /\ twins = NoTwins
    /\ mutated = NoQuery

\* ------------------------------------------------------------------------
\* src/traffic_noise.py: the steps of main_async and of the worker tasks
\* ------------------------------------------------------------------------
Started(t) == t.pc # "created"

Terminal(t) == t.pc \in {"done", "cancelled"}

TotalTicks == LET RECURSIVE Sum(_)
                  Sum(S) == IF S = {} THEN 0
                            ELSE LET w == CHOOSE x \in S : TRUE
                                 IN  task[w].ticks + Sum(S \ {w})
              IN  Sum(Workers)

\* MainStart with the duration sleep awaited whatever config.duration is
MainStart_always_sleeps ==
    /\ main_pc = "init"
    /\ main_pc' = "sleep"
    /\ UNCHANGED <<config, state, privacy_metrics, markov_chain, chaos_generator,
                   task, advanced>>

\* main_async, lines 1191-1199 / 1202: the tasks are created and main awaits
\* the duration sleep or the gather
MainStart ==
    /\ main_pc = "init"
    /\ main_pc' = IF config.duration > 0 THEN "sleep" ELSE "gather"
    /\ UNCHANGED <<config, state, privacy_metrics, markov_chain, chaos_generator,
                   task, advanced>>

\* the first step of a worker task: lines 1090-1095 and its first pass of the
\* loop up to the await
WorkerStart(w) ==
    /\ main_pc # "init"
    /\ task[w].pc = "created"
    /\ ~task[w].must_cancel
    /\ \E pattern \in PatternDraws, seed \in SeedDraws,
          ua \in USER_AGENTS, d \in NewsDraws(config) :
          Commit(TickBegin(WorkerPrologue(World, w, pattern, seed), w, config, ua, d))
    /\ UNCHANGED <<config, main_pc>>

\* the await of client.get in fetch_url returns or raises
FetchReturn(w) ==
    /\ task[w].pc = "fetch"
    /\ ~task[w].must_cancel
    /\ \E ok \in BOOLEAN, ua \in USER_AGENTS, d \in TailDraws(config) :
          Commit(TickTail(FetchEnd(World, w, ok, ua), w, config, d))
    /\ UNCHANGED <<config, main_pc>>

\* the await of client.get in connect_to_vps returns or raises
VpsReturn(w) ==
    /\ task[w].pc \in {"vps_https", "vps_http"}
    /\ ~task[w].must_cancel
    /\ \E ok \in BOOLEAN, d \in TailDraws(config) :
          IF ~ok /\ task[w].pc = "vps_https"
          THEN Commit([World EXCEPT !.task[w].pc = "vps_http"])
          ELSE Commit(TickTail(VpsEnd(World, w, ok), w, config, d))
    /\ UNCHANGED <<config, main_pc>>

\* CooldownReturn with a sleep that a cancellation does not interrupt
CooldownReturn_after_delay(w) ==
    /\ task[w].pc \in {"cooldown", "errsleep"}
    /\ TotalTicks < MaxTicks
    /\ \E ua \in USER_AGENTS, d \in NewsDraws(config) :
          Commit([TickBegin(World, w, config, ua, d) EXCEPT !.task[w].must_cancel = FALSE])
    /\ UNCHANGED <<config, main_pc>>

\* the end-of-tick sleep, or the sleep of the error handler, returns and the
\* worker is back at its loop condition
CooldownReturn(w) ==
    /\ task[w].pc \in {"cooldown", "errsleep"}
    /\ ~task[w].must_cancel
    /\ TotalTicks < MaxTicks
    /\ \E ua \in USER_AGENTS, d \in NewsDraws(config) :
          Commit(TickBegin(World, w, config, ua, d))
    /\ UNCHANGED <<config, main_pc>>

\* Cancelled with a fetch_url whose except clause catches the cancellation as
\* a failed fetch, so that the tick goes on
Cancelled_swallowed(w) ==
    /\ task[w].must_cancel
    /\ ~Terminal(task[w])
    /\ IF task[w].pc = "fetch"
       THEN Commit([World EXCEPT !.state.errors = @ + 1,
                                 !.task[w].pc = "cooldown",
                                 !.task[w].must_cancel = FALSE])
       ELSE IF task[w].pc \in {"vps_https", "vps_http", "cooldown"}
       THEN Commit([WorkerExit(World, w, task[w].pc) EXCEPT !.task[w].must_cancel = FALSE])
       ELSE Commit([World EXCEPT !.task[w].left_at = task[w].pc,
                                 !.task[w].pc = "cancelled",
                                 !.task[w].must_cancel = FALSE])
    /\ UNCHANGED <<config, main_pc>>

\* CancelledError is delivered to a worker task: at an await of the try block
\* it is caught at line 1134 and the loop is left; at the await of the error
\* handler, or before the first step, it ends the task
Cancelled(w) ==
    /\ task[w].must_cancel
    /\ ~Terminal(task[w])
    /\ IF task[w].pc \in {"fetch", "vps_https", "vps_http", "cooldown"}
       THEN Commit([WorkerExit(World, w, task[w].pc) EXCEPT !.task[w].must_cancel = FALSE])
       ELSE Commit([World EXCEPT !.task[w].left_at = task[w].pc,
                                 !.task[w].pc = "cancelled",
                                 !.task[w].must_cancel = FALSE])
    /\ UNCHANGED <<config, main_pc>>

\* Finally without the task.cancel() of lines 1207-1208
Finally_without_cancel ==
    /\ state' = [state EXCEPT !.running = FALSE]
    /\ main_pc' = "finally"
    /\ UNCHANGED <<config, privacy_metrics, markov_chain, chaos_generator, task, advanced>>

\* main_async, lines 1205-1209: the finally block up to its await
Finally ==
    /\ state' = [state EXCEPT !.running = FALSE]
    /\ task' = [w \in Workers |->
                   IF Terminal(task[w]) THEN task[w]
                   ELSE [task[w] EXCEPT !.must_cancel = TRUE]]
    /\ main_pc' = "finally"
    /\ UNCHANGED <<config, privacy_metrics, markov_chain, chaos_generator, advanced>>

\* main_async, lines 1199-1200: the duration sleep returns
DurationExpires ==
    /\ main_pc = "sleep"
    /\ \A w \in Workers : Started(task[w])
    /\ Finally

\* main_async, lines 1203-1204: the main task is cancelled at its await
MainCancelled ==
    /\ main_pc \in {"sleep", "gather"}
    /\ \A w \in Workers : Started(task[w])
    /\ Finally

\* main_async, line 1209: the gather of the finally block completes
MainReturn ==
    /\ main_pc = "finally"
    /\ \A w \in Workers : Terminal(task[w])
    /\ main_pc' = "returned"
    /\ UNCHANGED <<config, state, privacy_metrics, markov_chain, chaos_generator,
                   task, advanced>>

\* the module-level objects of lines 562-564 and 833, and the Config of main
InitPool ==
    /\ config \in PoolConfigs
    /\ state = AppState
    /\ privacy_metrics = PrivacyMetrics
    /\ markov_chain \in {MarkovChain(c, p) : c \in MarkovStartCategories,
                                             p \in MarkovStartPatterns}
    /\ chaos_generator \in {ChaosGenerator(390, <<>>, seed) : seed \in SeedDraws}
    /\ task = [w \in Workers |-> NewTask]
    /\ main_pc = "init"
    /\ advanced = [chaos_generator |-> {}, worker_chaos |-> [w \in Workers |-> {}]]
    /\ IssueIdle
    /\ UnitIdle

\* the pool of a process that runs IssueTrafficGenerator only
PoolIdle ==
    /\ config = DefaultConfig
    /\ state = AppState
    /\ privacy_metrics = PrivacyMetrics
    /\ markov_chain = MarkovChain("Lifestyle", "normal")
    /\ chaos_generator = ChaosGenerator(390, <<>>, 300)
    /\ task = [w \in Workers |-> NewTask]
    /\ main_pc = "init"
    /\ advanced = [chaos_generator |-> {}, worker_chaos |-> [w \in Workers |-> {}]]


\* ------------------------------------------------------------------------
\* MarkovChain taken on its own: any sequence of next_category and
\* next_pattern calls on one chain
\* ------------------------------------------------------------------------
\* random.random() in hundredths, every value
UnitDraws == 0 .. 99

\* the cursor values a chain is called at: every key of the table, and one
\* value that has no row (the cursors are plain attributes; "Privacy" is a
\* category of NEWS_SITES, "scanner" a pattern of BROWSING_PATTERNS)
CategoryCursors == Range(CategoryKeys) \cup {"Privacy"}

PatternCursors == Range(PatternKeys) \cup {"scanner"}

NextCategory ==
    /\ returned.calls < MaxCalls
    /\ \E u \in UnitDraws, c \in ChoiceDraws(CategoryKeys) :
         /\ markov_chain' = next_category(markov_chain, u, c)
         /\ returned' = [op |-> "next_category", before |-> markov_chain,
                         value |-> markov_chain'.current_category,
                         calls |-> returned.calls + 1]
    /\ UNCHANGED <<config, state, privacy_metrics, chaos_generator, task, main_pc,
                   advanced, twins, mutated>>

NextPattern ==
    /\ returned.calls < MaxCalls
    /\ \E u \in UnitDraws, c \in ChoiceDraws(PatternKeys) :
         /\ markov_chain' = next_pattern(markov_chain, u, c)
         /\ returned' = [op |-> "next_pattern", before |-> markov_chain,
                         value |-> markov_chain'.current_pattern,
                         calls |-> returned.calls + 1]
    /\ UNCHANGED <<config, state, privacy_metrics, chaos_generator, task, main_pc,
                   advanced, twins, mutated>>

\* ------------------------------------------------------------------------
\* ChaosGenerator taken on its own: two objects built from the same
\* arguments, each with its own draw of random.random(), and called alike
\* ------------------------------------------------------------------------
\* the worker ids of the largest pool main allows
WorkerIds == 0 .. WorkerLimit - 1

\* the seed arguments: None, and initial values 0 < seed < 1 in thousandths
SeedArguments == {<<>>, <<250>>, <<500>>, <<900>>}

\* random.random() * 0.5 + 0.25 in thousandths
StartDraws == {300, 500, 600}

\* the (min_delay, max_delay) arguments of get_chaos_delay, in seconds: those
\* of get_pattern_delay (CHAOS_MIN_DELAY, CHAOS_MAX_DELAY), and equal ones
DelayBounds == {<<1, 120>>, <<5, 5>>}

\* the base_probability arguments of should_switch_behavior, in hundredths
SwitchProbabilities == {15}

NewTwins(r, seed, u_a, u_b) ==
    [seed |-> seed, a |-> ChaosGenerator(r, seed, u_a), b |-> ChaosGenerator(r, seed, u_b),
     op |-> <<"__init__">>, out_a |-> "None", out_b |-> "None", calls |-> 0]

GetChaosDelay ==
    /\ twins.calls < MaxCalls
    /\ \E bounds \in DelayBounds :
         LET a == get_chaos_delay(twins.a, bounds[1], bounds[2])
             b == get_chaos_delay(twins.b, bounds[1], bounds[2])
         IN  twins' = [twins EXCEPT !.a = a.chaos, !.b = b.chaos,
                                    !.op = <<"get_chaos_delay", bounds[1], bounds[2]>>,
                                    !.out_a = a.delay, !.out_b = b.delay,
                                    !.calls = @ + 1]
    /\ UNCHANGED <<poolVars, returned, mutated>>

ShouldSwitchBehavior ==
    /\ twins.calls < MaxCalls
    /\ \E base_probability \in SwitchProbabilities :
         LET a == should_switch_behavior(twins.a, base_probability)
             b == should_switch_behavior(twins.b, base_probability)
         IN  twins' = [twins EXCEPT !.a = a.chaos, !.b = b.chaos,
                                    !.op = <<"should_switch_behavior", base_probability>>,
                                    !.out_a = a.switch, !.out_b = b.switch,
                                    !.calls = @ + 1]
    /\ UNCHANGED <<poolVars, returned, mutated>>

\* ------------------------------------------------------------------------
\* IssueTrafficGenerator._modify_query_for_frustration taken on its own: one
\* call on a generator (the method changes nothing of the generator)
\* ------------------------------------------------------------------------
\* the queries: one of several words, one with whitespace at both ends, the
\* empty one
Queries == {<<"wifi", " ", "slow">>, <<" ", "wifi", " ">>, <<>>}

\* the search numbers: both sides of every threshold of the method
SearchNums == {0, 2, 3, 5, 6, 10, 11}

ModifyQuery ==
    /\ mutated = NoQuery
    /\ \E query \in Queries, search_num \in SearchNums,
          c1 \in ChoiceDraws(frustration_prefixes), c2 \in ChoiceDraws(frustration_suffixes) :
         mutated' = [query |-> query, search_num |-> search_num,
                     result |-> _modify_query_for_frustration(gen, query, search_num, c1, c2)]
    /\ UNCHANGED <<issueVars, returned, twins>>

\* ------------------------------------------------------------------------
\* PrivacyMetrics taken on its own: any sequence of the calls the workers
\* make on it, from the states that earlier ticks leave it in
\* ------------------------------------------------------------------------
\* a buffer of n samples of n different whole seconds
Samples(n) == [i \in 1 .. n |-> 1000 * i]

\* the metrics after many ticks: no or six user agents seen, no or seven
\* categories seen, an empty buffer, one short of full or full (the length
\* record_request leaves it at), no or thirteen identity changes
MetricsStates ==
    {[unique_user_agents |-> ua, unique_categories |-> cat, timing_samples |-> Samples(n),
      request_count |-> n, identity_changes |-> ic] :
        ua \in {{}, {"ua1", "ua2", "ua3", "ua4", "ua5", "ua6"}},
        cat \in {{}, {"", "Lifestyle", "World", "Technology", "Health", "Trending",
                     "SocialMedia"}},
        n \in {0, 99, 100},
        ic \in {0, 13}}

\* privacy_metrics.record_request(ua, category, 0): build_headers line 953,
\* worker line 1117
RecordRequest ==
    /\ returned.calls < MaxCalls
    /\ \E user_agent \in {"ua0"}, category \in {"", "World"} :
         privacy_metrics' = record_request(privacy_metrics, user_agent, category, 0)
    /\ returned' = [op |-> "record_request", before |-> privacy_metrics,
                    value |-> get_confusion_score(privacy_metrics'),
                    calls |-> returned.calls + 1]
    /\ UNCHANGED <<config, state, markov_chain, chaos_generator, task, main_pc,
                   advanced, twins, mutated>>

\* privacy_metrics.timing_samples.append(delay): worker line 1123
AppendDelay ==
    /\ returned.calls < MaxCalls
    /\ \E delay \in {1000, 120000} :
         privacy_metrics' = [privacy_metrics EXCEPT !.timing_samples = Append(@, delay)]
    /\ returned' = [op |-> "append", before |-> privacy_metrics,
                    value |-> get_confusion_score(privacy_metrics'),
                    calls |-> returned.calls + 1]
    /\ UNCHANGED <<config, state, markov_chain, chaos_generator, task, main_pc,
                   advanced, twins, mutated>>

\* privacy_metrics.record_identity_change(): worker line 1128
RecordIdentityChange ==
    /\ returned.calls < MaxCalls
    /\ privacy_metrics' = record_identity_change(privacy_metrics)
    /\ returned' = [op |-> "record_identity_change", before |-> privacy_metrics,
                    value |-> get_confusion_score(privacy_metrics'),
                    calls |-> returned.calls + 1]
    /\ UNCHANGED <<config, state, markov_chain, chaos_generator, task, main_pc,
                   advanced, twins, mutated>>

\* ------------------------------------------------------------------------
\* get_random_news_url taken on its own: one call, as a tick of a worker
\* makes it, under any of the configurations and from any cursor
\* ------------------------------------------------------------------------
\* the Config objects of the calls: the flags and options the function reads
NewsConfigs ==
    {[DefaultConfig EXCEPT !.chaos_mode = chaos_mode, !.use_markov = use_markov,
                           !.persona = persona, !.include_social = include_social,
                           !.scheduled_profile = scheduled_profile,
                           !.inject_decoys = extra[1], !.simulate_issues = extra[2]] :
        chaos_mode \in BOOLEAN, use_markov \in BOOLEAN,
        persona \in {"None", "privacy_advocate", "social_butterfly"},
        include_social \in BOOLEAN, scheduled_profile \in BOOLEAN,
        extra \in {<<FALSE, "None">>, <<TRUE, "None">>, <<FALSE, "networking">>}}

\* category, url = get_random_news_url(config, config.chaos_mode and
\* config.use_markov): worker line 1108
GetRandomNewsUrl ==
    /\ returned = NoCall
    /\ \E d \in NewsDraws(config), u \in CursorDraws :
         LET got == get_random_news_url(config, markov_chain,
                                        config.chaos_mode /\ config.use_markov,
                                        [d EXCEPT !.u_markov = u])
         IN  /\ markov_chain' = got.markov_chain
             /\ returned' = [op |-> "get_random_news_url",
                             before |-> [markov_chain |-> markov_chain,
                                         profile |-> d.profile],
                             value |-> got.category,
                             calls |-> 1]
    /\ UNCHANGED <<config, state, privacy_metrics, chaos_generator, task, main_pc,
                   advanced, twins, mutated>>

\* ------------------------------------------------------------------------
\* The specifications: a session of IssueTrafficGenerator.run, and a session
\* of the worker pool of main_async
\* ------------------------------------------------------------------------
\* the generator as its constructor leaves it, before run() is called
InitIssue ==
    /\ gen \in {NewGenerator(c) : c \in GenConfigs}
    /\ run_pc = "idle"
    /\ run_local = [duration_minutes |-> 0, issues_simulated |-> 0,
                    issues_per_session |-> 0, issue_type |-> "None"]
    /\ passed = [end_time |-> FALSE, sim_end_time |-> FALSE]
    /\ PoolIdle
    /\ UnitIdle

NextIssue ==
    \/ (\E issues_per_session \in {1, 3} : Run(1, issues_per_session)) /\ UNCHANGED <<poolVars, unitVars>>
    \/ RunLoop /\ UNCHANGED <<poolVars, unitVars>>
    \/ SimulateIssue /\ UNCHANGED <<poolVars, unitVars>>
    \/ SimLoop /\ UNCHANGED <<poolVars, unitVars>>
    \/ (\E raised \in BOOLEAN : VisitReturn(raised)) /\ UNCHANGED <<poolVars, unitVars>>
    \/ SleepReturn /\ UNCHANGED <<poolVars, unitVars>>
    \/ PauseReturn /\ UNCHANGED <<poolVars, unitVars>>
    \/ RunExit /\ UNCHANGED <<poolVars, unitVars>>
    \/ Stop /\ UNCHANGED <<poolVars, unitVars>>

SpecIssue == InitIssue /\ [][NextIssue]_vars

\* the scheduling of the event loop for run(): a coroutine that is ready
\* runs, the timer of an asyncio.sleep fires, and the fetch_callback awaited
\* by _visit_url returns or raises.  run() is at one place at a time, so at
\* most one of these steps is enabled in a state.  Of RunLoop, the step that
\* leaves the loop is the one assumed to happen.
FairIssue ==
    /\ SpecIssue
    /\ WF_vars((\/ ~(gen.running /\ ~passed.end_time) /\ RunLoop
                \/ SimLoop
                \/ \E raised \in BOOLEAN : VisitReturn(raised)
                \/ SleepReturn
                \/ PauseReturn
                \/ RunExit) /\ UNCHANGED <<poolVars, unitVars>>)

NextPool ==
    \/ MainStart /\ UNCHANGED <<issueVars, unitVars>>
    \/ (\E w \in Workers : WorkerStart(w)) /\ UNCHANGED <<issueVars, unitVars>>
    \/ (\E w \in Workers : FetchReturn(w)) /\ UNCHANGED <<issueVars, unitVars>>
    \/ (\E w \in Workers : VpsReturn(w)) /\ UNCHANGED <<issueVars, unitVars>>
    \/ (\E w \in Workers : CooldownReturn(w)) /\ UNCHANGED <<issueVars, unitVars>>
    \/ (\E w \in Workers : Cancelled(w)) /\ UNCHANGED <<issueVars, unitVars>>
    \/ DurationExpires /\ UNCHANGED <<issueVars, unitVars>>
    \/ MainCancelled /\ UNCHANGED <<issueVars, unitVars>>
    \/ MainReturn /\ UNCHANGED <<issueVars, unitVars>>

SpecPool == InitPool /\ [][NextPool]_vars

\* the scheduling of the event loop: a task that is ready runs, so a
\* cancellation requested is delivered and a gather whose tasks are all done
\* returns; nothing makes an await of the network or of a sleep return
FairPool ==
    /\ SpecPool
    /\ \A w \in 0 .. MaxWorkers - 1 :
          WF_vars(w \in Workers /\ Cancelled(w) /\ UNCHANGED <<issueVars, unitVars>>)
    /\ WF_vars(MainReturn /\ UNCHANGED <<issueVars, unitVars>>)

\* ------------------------------------------------------------------------
\* The specifications of the classes and methods taken on their own
\* ------------------------------------------------------------------------
\* a chain whose cursors hold any of the cursor values
InitMarkov ==
    /\ markov_chain \in {MarkovChain(c, p) : c \in CategoryCursors, p \in PatternCursors}
    /\ returned = NoCall
    /\ twins = NoTwins
    /\ mutated = NoQuery
    /\ config = DefaultConfig
    /\ state = AppState
    /\ privacy_metrics = PrivacyMetrics
    /\ chaos_generator = ChaosGenerator(390, <<>>, 300)
    /\ task = [w \in Workers |-> NewTask]
    /\ main_pc = "init"
    /\ advanced = [chaos_generator |-> {}, worker_chaos |-> [w \in Workers |-> {}]]
    /\ IssueIdle

NextMarkov ==
    \/ NextCategory /\ UNCHANGED issueVars
    \/ NextPattern /\ UNCHANGED issueVars

SpecMarkov == InitMarkov /\ [][NextMarkov]_vars

\* two generators as a worker of any id builds them (r = 3.85 + id * 0.01)
\* or with the default r = 3.9, with any of the seed arguments
InitChaos ==
    /\ twins \in {NewTwins(r, seed, u_a, u_b) :
                     r \in {WorkerR(worker_id) : worker_id \in WorkerIds} \cup {390},
                     seed \in SeedArguments, u_a \in StartDraws, u_b \in StartDraws}
    /\ returned = NoCall
    /\ mutated = NoQuery
    /\ PoolIdle
    /\ IssueIdle

NextChaos ==
    \/ GetChaosDelay /\ UNCHANGED issueVars
    \/ ShouldSwitchBehavior /\ UNCHANGED issueVars

SpecChaos == InitChaos /\ [][NextChaos]_vars

\* a generator of any configuration
InitQuery ==
    /\ gen \in {NewGenerator(c) : c \in GenConfigs}
    /\ run_pc = "idle"
    /\ run_local = [duration_minutes |-> 0, issues_simulated |-> 0,
                    issues_per_session |-> 0, issue_type |-> "None"]
    /\ passed = [end_time |-> FALSE, sim_end_time |-> FALSE]
    /\ PoolIdle
    /\ UnitIdle

NextQuery == ModifyQuery /\ UNCHANGED poolVars

SpecQuery == InitQuery /\ [][NextQuery]_vars

\* the metrics in any of the states earlier ticks leave them in
InitMetrics ==
    /\ privacy_metrics \in MetricsStates
    /\ returned = NoCall
    /\ twins = NoTwins
    /\ mutated = NoQuery
    /\ config = DefaultConfig
    /\ state = AppState
    /\ markov_chain = MarkovChain("Lifestyle", "normal")
    /\ chaos_generator = ChaosGenerator(390, <<>>, 300)
    /\ task = [w \in Workers |-> NewTask]
    /\ main_pc = "init"
    /\ advanced = [chaos_generator |-> {}, worker_chaos |-> [w \in Workers |-> {}]]
    /\ IssueIdle

NextMetrics ==
    \/ RecordRequest /\ UNCHANGED issueVars
    \/ AppendDelay /\ UNCHANGED issueVars
    \/ RecordIdentityChange /\ UNCHANGED issueVars

SpecMetrics == InitMetrics /\ [][NextMetrics]_vars

\* a call under any of the configurations, the chain at any of its cursors
InitNews ==
    /\ config \in NewsConfigs
    /\ markov_chain \in {MarkovChain(c, "normal") : c \in Range(CategoryKeys)}
    /\ returned = NoCall
    /\ twins = NoTwins
    /\ mutated = NoQuery
    /\ state = AppState
    /\ privacy_metrics = PrivacyMetrics
    /\ chaos_generator = ChaosGenerator(390, <<>>, 300)
    /\ task = [w \in Workers |-> NewTask]
    /\ main_pc = "init"
    /\ advanced = [chaos_generator |-> {}, worker_chaos |-> [w \in Workers |-> {}]]
    /\ IssueIdle

NextNews == GetRandomNewsUrl /\ UNCHANGED issueVars

SpecNews == InitNews /\ [][NextNews]_vars
\* ------------------------------------------------------------------------
\* Claims about IssueTrafficGenerator
\* ------------------------------------------------------------------------
\* the related issue types of the current issue, as members
RelatedOfCurrent ==
    {IssueTypeOf(r) : r \in Range(ISSUE_PATTERNS[gen.current_issue].related_issues)}

\* the number of times stats["issues_simulated"] counts the issue type m
Simulated(m) ==
    LET d == gen.stats.issues_simulated
    IN  IF \E i \in DOMAIN d : d[i][1] = IssueType[m]
        THEN (CHOOSE e \in Range(d) : e[1] = IssueType[m])[2]
        ELSE 0

\* C1: a running session never ends because of an error raised inside a
\* tick: run ends only by stop() or by its duration running out, never by an
\* exception that escapes simulate_issue.
C1_NoErrorEndsSession == run_pc # "KeyError"

\* C8: with chaos factor 1.0 and a current issue whose related set is
\* nonempty and fully enabled, the issue type _select_issue hands to
\* simulate_issue is a member of that related set.
C8_ChainsToRelated ==
    (/\ run_pc = "simulate_issue"
     /\ gen.chaos_factor = 100
     /\ gen.current_issue # "None"
     /\ RelatedOfCurrent # {}
     /\ RelatedOfCurrent \subseteq Range(gen.issue_types))
    => run_local.issue_type \in RelatedOfCurrent

C8_Witness ==
    /\ run_pc = "simulate_issue"
    /\ gen.chaos_factor = 100
    /\ gen.current_issue = "PACKET_LOSS"
    /\ RelatedOfCurrent \subseteq Range(gen.issue_types)
    /\ run_local.issue_type = "WIFI_PROBLEMS"
    /\ gen.stats.issue_chains = 1

\* C9: with chaos factor 0.0 _select_issue never takes the related-set
\* branch: whatever the current issue, every enabled issue type and nothing
\* else can be returned, and issue_chains stays 0.
C9_NoChainAtZero ==
    gen.chaos_factor = 0 =>
        /\ gen.stats.issue_chains = 0
        /\ \A sel \in SelectOutcomes(gen) : sel.gen = gen
        /\ {sel.issue : sel \in SelectOutcomes(gen)} = Range(gen.issue_types)

C9_Witness ==
    /\ gen.chaos_factor = 0
    /\ run_pc = "simulate_issue"
    /\ gen.current_issue = "SLOW_COMPUTER"
    /\ EnabledRelated(gen) # <<>>
    /\ run_local.issue_type = "SLOW_COMPUTER"
    /\ gen.stats.issue_chains = 0

\* C10: with the two enabled issue types A = HIGH_CPU and B = MEMORY_LEAK,
\* whose enabled related sets are {B} and {A}, chaos factor 1.0 and a session
\* whose first issue is A, the issues simulated are A, B, A, B, ...: after
\* every call of simulate_issue A was simulated as often as B and B is the
\* current issue, or once more and A is the current issue.
C10_Alternates ==
    (/\ gen.issue_types = <<"HIGH_CPU", "MEMORY_LEAK">>
     /\ gen.chaos_factor = 100
     /\ gen.stats.issues_simulated # <<>>
     /\ Head(gen.stats.issues_simulated)[1] = "high_cpu")
    => /\ \A e \in Range(gen.stats.issues_simulated) : e[1] \in {"high_cpu", "memory_leak"}
       /\ \/ /\ Simulated("HIGH_CPU") = Simulated("MEMORY_LEAK") + 1
             /\ gen.current_issue = "HIGH_CPU"
          \/ /\ Simulated("HIGH_CPU") = Simulated("MEMORY_LEAK")
             /\ gen.current_issue = "MEMORY_LEAK"

C10_Witness ==
    /\ gen.issue_types = <<"HIGH_CPU", "MEMORY_LEAK">>
    /\ gen.chaos_factor = 100
    /\ gen.stats.issues_simulated = << <<"high_cpu", 2>>, <<"memory_leak", 1>> >>
    /\ gen.current_issue = "HIGH_CPU"

\* C11: every issue type _select_issue can return where run calls it, through
\* the related branch or the global one and at every chaos factor, is one of
\* the enabled issue types; the issue type handed to simulate_issue is
\* enabled, also when a related issue of the current one is not.
C11_SelectsEnabled ==
    /\ run_pc = "run_loop" =>
          \A sel \in SelectOutcomes(gen) : sel.issue \in Range(gen.issue_types)
    /\ run_pc = "simulate_issue" => run_local.issue_type \in Range(gen.issue_types)

C11_Witness ==
    /\ run_pc = "simulate_issue"
    /\ gen.current_issue = "PACKET_LOSS"
    /\ ~(RelatedOfCurrent \subseteq Range(gen.issue_types))
    /\ gen.stats.issue_chains = 1
    /\ run_local.issue_type = "WIFI_PROBLEMS"

\* the (entry, related identifier) pairs of ISSUE_PATTERNS whose related
\* identifier names an issue type without an entry of its own
DanglingRelated ==
    UNION {{<<m, r>> : r \in {x \in Range(ISSUE_PATTERNS[m].related_issues) :
                                IssueTypeOf(x) \notin DOMAIN ISSUE_PATTERNS}} :
           m \in DOMAIN ISSUE_PATTERNS}

\* C12: every identifier in the related_issues of an ISSUE_PATTERNS entry
\* names an issue type that has an entry in ISSUE_PATTERNS itself; stated on
\* the entry of the issue being simulated.
C12_RelatedHaveEntries ==
    gen.current_issue # "None" =>
        \A m \in RelatedOfCurrent : m \in DOMAIN ISSUE_PATTERNS

\* C13: a catalog with a dangling related-issue reference is rejected when it
\* is loaded: with such a catalog run does not start and no issue is ever
\* simulated.
C13_DanglingCatalogRejected ==
    DanglingRelated # {} =>
        /\ run_pc = "idle"
        /\ gen.stats.issues_simulated = <<>>
        /\ gen.stats.total_searches = 0

\* C23: search_count, the counter handed to _modify_query_for_frustration,
\* is set to zero when simulate_issue is entered, goes up by one with every
\* action of that issue (with every search counted in total_searches) and
\* changes at no other step: at every action it is the number of actions
\* since the issue was entered, whatever earlier issues took.
C23_CounterPerIssue ==
    [][/\ (run_pc = "simulate_issue" /\ run_pc' = "sim_loop") => gen'.search_count = 0
       /\ gen'.stats.total_searches = gen.stats.total_searches + 1 =>
             gen'.search_count = gen.search_count + 1
       /\ (gen'.stats.total_searches = gen.stats.total_searches
           /\ ~(run_pc = "simulate_issue" /\ run_pc' = "sim_loop")) =>
             gen'.search_count = gen.search_count]_vars

C23_Witness ==
    /\ run_pc = "sleep"
    /\ run_local.issues_simulated = 1
    /\ gen.stats.total_searches = 3
    /\ gen.search_count = 1

\* C27: in one run the number of simulate_issue calls never exceeds the
\* issues_per_session the run was given.
C27_AtMostIssuesPerSession ==
    run_pc # "idle" => run_local.issues_simulated <= run_local.issues_per_session

\* C35: once stop() was called during a run (run is suspended in a visit, in
\* a sleep or in the pause between two issues, or has gone on from there,
\* and self.running is False), no visit is started and no action is counted:
\* the visit in flight completes and is followed by the sleep; at its loop
\* condition simulate_issue returns to run, and run leaves its loop at its
\* own; running stays False; and run eventually returns with running False.
C35_NoVisitAfterStop ==
    /\ [][(/\ ~gen.running
           /\ run_pc \in {"visit_await", "sleep", "pause", "sim_loop", "run_loop",
                          "run_exit"})
          => /\ gen'.total_requests = gen.total_requests
             /\ gen'.stats.total_requests = gen.stats.total_requests
             /\ gen'.stats.total_searches = gen.stats.total_searches
             /\ gen'.stats.issues_simulated = gen.stats.issues_simulated
             /\ ~gen'.running
             /\ run_pc = "visit_await" => run_pc' = "sleep"
             /\ run_pc = "sleep" => run_pc' \in {"sim_loop", "run_loop"}
             /\ run_pc = "sim_loop" => run_pc' = "run_loop"
             /\ run_pc = "pause" => run_pc' = "run_loop"
             /\ run_pc = "run_loop" => run_pc' = "run_exit"
             /\ run_pc = "run_exit" => run_pc' = "done"]_vars
    /\ (/\ ~gen.running
        /\ run_pc \in {"visit_await", "sleep", "pause", "sim_loop", "run_loop",
                       "run_exit"})
       ~> (run_pc = "done" /\ ~gen.running)

\* run is about to leave its loop with its end time ahead: stop() was called
\* while the one visit of the session was in flight
C35_Witness ==
    /\ run_pc = "run_exit"
    /\ ~gen.running
    /\ gen.fetch_callback
    /\ gen.total_requests = 1
    /\ gen.stats.total_searches = 1
    /\ ~passed.end_time

\* C36: in every reachable state of the generator the attribute
\* total_requests equals stats["total_requests"], and stats["total_requests"]
\* is at most stats["total_searches"]: a pass of the loop of simulate_issue
\* counts one action and makes at most one visit, and none when the action
\* kind drawn has an empty target list in the pattern.
C36_RequestsWithinSearches ==
    /\ gen.total_requests = gen.stats.total_requests
    /\ gen.stats.total_requests <= gen.stats.total_searches
    /\ gen.total_requests >= 0

C36_Witness ==
    /\ gen.current_issue = "PROXY_ERROR"
    /\ ISSUE_PATTERNS[gen.current_issue].tool_downloads = 0
    /\ run_pc = "sleep"
    /\ gen.stats.total_searches = 2
    /\ gen.total_requests = 1
    /\ gen.stats.total_requests = 1

\* ------------------------------------------------------------------------
\* Claims about the worker pool
\* ------------------------------------------------------------------------
\* C2: once the stop signal is issued (the duration expires or main_async is
\* cancelled, and its finally block has run), every worker eventually reaches
\* its Stopped state and main_async returns.
C2_AllWorkersStop ==
    (main_pc = "finally") ~> (main_pc = "returned" /\ \A w \in Workers : Terminal(task[w]))

C2_Witness ==
    /\ main_pc = "returned"
    /\ config.parallel_workers = MaxWorkers
    /\ \A w \in Workers : Terminal(task[w])
    /\ \E w \in Workers : task[w].ticks >= 2

\* C3: in a step in which the fetch of a worker fails (its await of
\* client.get is left, by no cancellation, and no request is counted), the
\* worker is not stopped: it is suspended at a sleep of its loop, from which
\* its next tick starts; and when nothing else failed in the tick (the sleep
\* is the end-of-tick cooldown) state.errors has grown by exactly 1.
C3_FetchFailureAbsorbed ==
    [][\A w \in Workers :
          (/\ task[w].pc \in {"fetch", "vps_http"}
           /\ ~task[w].must_cancel
           /\ task'[w].pc # task[w].pc
           /\ state'.request_count = state.request_count)
          => /\ task'[w].pc \in {"cooldown", "errsleep"}
             /\ task'[w].pc = "cooldown" => state'.errors = state.errors + 1
             /\ task'[w].pc = "errsleep" => state'.errors = state.errors + 2]_vars

C3_Witness ==
    /\ config.mode = "news"
    /\ config.parallel_workers = 1
    /\ state.errors = 1
    /\ state.request_count = 0
    /\ task[0].ticks = 2
    /\ task[0].pc = "fetch"

\* C4: whenever every worker is between two ticks (in its end-of-tick
\* cooldown), PrivacyMetrics.request_count equals the number of ticks the
\* workers have performed.
C4_CountEqualsTicks ==
    (\A w \in Workers : task[w].pc = "cooldown")
        => privacy_metrics.request_count = TotalTicks

\* C5, as the claim states it: a worker leaves its loop only in Cooldown or at
\* the top of Running, never while its fetch await is in flight.
C5_ExitsOnlyBetweenTicks ==
    \A w \in Workers : task[w].left_at \in {"None", "cooldown", "top"}

\* C5, amended: a cancellation is delivered to a worker at the await it is
\* suspended at, whichever it is (the await of the fetch, the end-of-tick
\* sleep, the sleep of the error handler), and the worker leaves its loop in
\* that step, from that await, without completing the tick or starting another.
C5_ExitsAtItsAwait ==
    [][\A w \in Workers :
          (task[w].must_cancel /\ ~Terminal(task[w]) /\ task'[w] # task[w])
          => /\ Terminal(task'[w])
             /\ task[w].pc \in {"fetch", "vps_https", "vps_http", "cooldown", "errsleep"}
             /\ task'[w].left_at = task[w].pc
             /\ task'[w].ticks = task[w].ticks
             /\ state'.request_count = state.request_count
             /\ state'.errors = state.errors]_vars

C5_Witness ==
    \E w \in Workers : task[w].pc = "done" /\ task[w].left_at = "fetch"

\* C6: the stop signal reaches a worker that is in its end-of-tick sleep as a
\* cancellation of that sleep, and the worker's next step is then its exit
\* from the sleep: it waits for no remainder of the delay (the sleep does not
\* return to the loop condition) and starts no other tick.
C6_SleepReturnsEarly ==
    [][\A w \in Workers :
          /\ (main_pc # "finally" /\ main_pc' = "finally" /\ task[w].pc = "cooldown")
             => (task'[w].pc = "cooldown" /\ task'[w].must_cancel)
          /\ (task[w].pc = "cooldown" /\ state.running = FALSE /\ task'[w] # task[w])
             => /\ task'[w].pc = "done"
                /\ task'[w].left_at = "cooldown"
                /\ task'[w].ticks = task[w].ticks
                /\ privacy_metrics' = privacy_metrics]_vars

C6_Witness ==
    \E w \in Workers :
        /\ task[w].pc = "done"
        /\ task[w].left_at = "cooldown"
        /\ task[w].ticks >= 1
        /\ ~state.running

\* C7: no ChaosGenerator is advanced for the ticks of two different workers.
C7_NoSharedChaos ==
    /\ Cardinality(advanced.chaos_generator) <= 1
    /\ \A w \in Workers : advanced.worker_chaos[w] \subseteq {w}

\* C26: with config.duration = 0 the session is unbounded: main_async never
\* awaits the duration sleep, and state.running is cleared and a worker is
\* cancelled only by the cancellation of main_async at its gather (the stop
\* signal), never by the pool on its own.
C26_UnboundedAtDurationZero ==
    [][config.duration = 0 =>
          /\ main_pc' # "sleep"
          /\ (state.running /\ ~state'.running) =>
                (main_pc = "gather" /\ main_pc' = "finally")
          /\ \A w \in Workers :
                (~task[w].must_cancel /\ task'[w].must_cancel) =>
                    (main_pc = "gather" /\ main_pc' = "finally")
          /\ \A w \in Workers :
                (~Terminal(task[w]) /\ Terminal(task'[w])) => task[w].must_cancel]_vars

C26_Witness ==
    /\ config.duration = 0
    /\ main_pc = "gather"
    /\ state.running
    /\ TotalTicks = MaxTicks
    /\ \A w \in Workers : task[w].pc = "cooldown" /\ ~task[w].must_cancel

\* C28: within one worker the delay and the switch decision consume the same
\* chaos state: a worker whose should_switch_behavior calls advance its own
\* ChaosGenerator takes its delays from that generator, and so not from the
\* module-level one.
C28_SwitchAndDelayShareState ==
    \A w \in Workers :
        w \in advanced.worker_chaos[w] => w \notin advanced.chaos_generator

\* C30: the outcome of the fetch does not influence the stochastic state:
\* from every state in which a worker awaits its fetch, and with the same
\* draws, the tick that follows a failed fetch and the tick that follows a
\* successful one end with the same ChaosGenerator states, the same Markov
\* cursors, the same worker pattern and the same delay sample, at the same
\* await, and both are recorded as a request by the metrics.
C30_FetchOutcomeIgnored ==
    \A w \in Workers :
        task[w].pc = "fetch" =>
            \A ua \in USER_AGENTS, d \in TailDraws(config) :
                LET succeeded == TickTail(FetchEnd(World, w, TRUE, ua), w, config, d)
                    failed == TickTail(FetchEnd(World, w, FALSE, ua), w, config, d)
                IN  /\ succeeded.chaos_generator = failed.chaos_generator
                    /\ succeeded.markov_chain = failed.markov_chain
                    /\ succeeded.task[w].worker_chaos = failed.task[w].worker_chaos
                    /\ succeeded.task[w].pattern = failed.task[w].pattern
                    /\ succeeded.privacy_metrics = failed.privacy_metrics
                    /\ succeeded.task[w].pc = failed.task[w].pc
                    /\ succeeded.task[w].ticks = failed.task[w].ticks

C30_Witness ==
    /\ config.chaos_mode
    /\ state.errors = 1
    /\ state.request_count = 0
    /\ task[0].pc = "cooldown"
    /\ chaos_generator.iteration = 1
    /\ task[0].worker_chaos.iteration = 1
    /\ privacy_metrics.request_count = 2

\* C33: privacy_metrics.unique_categories holds only categories that a worker
\* tick selected and fetched from, which are values get_random_news_url can
\* return (a key of NEWS_SITES, or "Decoy"); no other value, such as an
\* empty placeholder category, is ever added to it.
C33_OnlyVisitedCategories ==
    privacy_metrics.unique_categories \subseteq NEWS_SITES \cup {"Decoy"}

\* C34: state.workers_active equals the number of workers that have started
\* and not yet exited, so it lies in 0 .. parallel_workers, and it is 0 once
\* every worker task has finished, at whichever await a worker was cancelled
\* (the fetch, the end-of-tick sleep, the sleep of the error handler).
C34_ActiveCountsLiveWorkers ==
    /\ state.workers_active =
          Cardinality({w \in Workers : Started(task[w]) /\ ~Terminal(task[w])})
    /\ state.workers_active \in 0 .. config.parallel_workers
    /\ (\A w \in Workers : Terminal(task[w])) => state.workers_active = 0

\* C37: when config.use_markov is false or config.chaos_mode is false, no
\* tick of a worker changes the module-level Markov chain: both cursors keep
\* the values MarkovChain.__init__ drew, and whatever a tick draws for
\* next_category, for next_pattern and for the change of pattern, the head
\* and the tail of the tick leave the chain as it is; with chaos_mode false
\* the tail of a tick also leaves the worker's pattern as it is, which is
\* the one drawn at the start of the worker.
C37_CursorFrozenWithoutMarkovChaos ==
    LET NewsAll == {[d EXCEPT !.u_markov = u] : d \in NewsDraws(config), u \in CursorDraws}
        TailAll == {[d EXCEPT !.u_pattern = u, !.u_switch = s, !.new_pattern = p] :
                       d \in TailDraws(config), u \in CursorDraws, s \in {9, 99},
                       p \in Range(BROWSING_PATTERNS)}
    IN  ~(config.use_markov /\ config.chaos_mode) =>
            /\ markov_chain \in {MarkovChain(c, p) : c \in MarkovStartCategories,
                                                    p \in MarkovStartPatterns}
            /\ \A w \in Workers :
                  /\ task[w].pc \in {"cooldown", "errsleep"} =>
                        \A ua \in USER_AGENTS, d \in NewsAll :
                            TickBegin(World, w, config, ua, d).markov_chain = markov_chain
                  /\ task[w].pc \in {"fetch", "vps_https", "vps_http"} =>
                        \A d \in TailAll :
                            /\ TickTail(World, w, config, d).markov_chain = markov_chain
                            /\ ~config.chaos_mode =>
                                  TickTail(World, w, config, d).task[w].pattern
                                      = task[w].pattern
                  /\ (~config.chaos_mode /\ Started(task[w]) /\ task[w].ticks > 0) =>
                        task[w].pattern \in PatternDraws

C37_Witness ==
    /\ config.chaos_mode
    /\ ~config.use_markov
    /\ task[0].pc = "cooldown"
    /\ task[0].ticks >= 3
    /\ state.request_count >= 2
    /\ markov_chain = MarkovChain("Lifestyle", "normal")
    /\ privacy_metrics.identity_changes = 0

\* ------------------------------------------------------------------------
\* Claims about MarkovChain
\* ------------------------------------------------------------------------
\* the keys of a row that carry a positive weight
PositiveKeys(row) == {e[1] : e \in {f \in Range(row) : f[2] > 0}}

\* the values the next call of next_category (next_pattern) on mc can return
CategoryOutcomes(mc) ==
    {next_category(mc, u, c).current_category :
        u \in UnitDraws, c \in ChoiceDraws(CategoryKeys)}

PatternOutcomes(mc) ==
    {next_pattern(mc, u, c).current_pattern :
        u \in UnitDraws, c \in ChoiceDraws(PatternKeys)}

\* C14: next_category and next_pattern return a key of their table from
\* every cursor value: where the cursor has a row, a key of that row that
\* carries a positive weight; where it has none, any of the row keys of the
\* table (a uniform draw over all of them) instead of failing.
C14_ReturnsTableKey ==
    /\ CategoryOutcomes(markov_chain) \subseteq Range(CategoryKeys)
    /\ PatternOutcomes(markov_chain) \subseteq Range(PatternKeys)
    /\ IF markov_chain.current_category \in DOMAIN category_transitions
       THEN CategoryOutcomes(markov_chain) \subseteq
                PositiveKeys(category_transitions[markov_chain.current_category])
       ELSE CategoryOutcomes(markov_chain) = DOMAIN category_transitions
    /\ IF markov_chain.current_pattern \in DOMAIN pattern_transitions
       THEN PatternOutcomes(markov_chain) \subseteq
                PositiveKeys(pattern_transitions[markov_chain.current_pattern])
       ELSE PatternOutcomes(markov_chain) = DOMAIN pattern_transitions
    /\ returned.op = "next_category" =>
          /\ returned.value \in DOMAIN category_transitions
          /\ returned.before.current_category \in DOMAIN category_transitions =>
                returned.value \in
                    PositiveKeys(category_transitions[returned.before.current_category])
    /\ returned.op = "next_pattern" =>
          /\ returned.value \in DOMAIN pattern_transitions
          /\ returned.before.current_pattern \in DOMAIN pattern_transitions =>
                returned.value \in
                    PositiveKeys(pattern_transitions[returned.before.current_pattern])

C14_Witness ==
    /\ returned.op = "next_category"
    /\ returned.before.current_category = "Privacy"
    /\ returned.value = "SocialMedia"
    /\ markov_chain.current_pattern = "scanner"
    /\ returned.calls = 1

\* C15: every row of category_transitions and of pattern_transitions sums
\* to exactly 1 (100 hundredths) and no row is all zero; the rows are those
\* the calls draw from.
C15_RowsStochastic ==
    /\ \A k \in DOMAIN category_transitions :
          /\ RowTotal(category_transitions[k]) = 100
          /\ PositiveKeys(category_transitions[k]) # {}
    /\ \A k \in DOMAIN pattern_transitions :
          /\ RowTotal(pattern_transitions[k]) = 100
          /\ PositiveKeys(pattern_transitions[k]) # {}
    /\ RowTotal(RowOf(category_transitions, markov_chain.current_category)) \in {0, 100}
    /\ RowTotal(RowOf(pattern_transitions, markov_chain.current_pattern)) \in {0, 100}

C15_Witness ==
    /\ returned.op = "next_pattern"
    /\ returned.before.current_pattern = "erratic"
    /\ returned.value = "slow"
    /\ RowTotal(RowOf(category_transitions, markov_chain.current_category)) = 100
    /\ returned.calls = MaxCalls

\* C16: after next_category returns v the chain's current_category is v and
\* its current_pattern is what it was before the call; after next_pattern
\* returns v the current_pattern is v and the current_category is unchanged.
\* The values a call can return depend on the cursor it reads only, whatever
\* the other cursor holds and whatever calls were made before.
C16_MovesOneCursor ==
    /\ returned.op = "next_category" =>
          /\ markov_chain.current_category = returned.value
          /\ markov_chain.current_pattern = returned.before.current_pattern
    /\ returned.op = "next_pattern" =>
          /\ markov_chain.current_pattern = returned.value
          /\ markov_chain.current_category = returned.before.current_category
    /\ \A p \in PatternCursors :
          CategoryOutcomes(markov_chain) =
              CategoryOutcomes(MarkovChain(markov_chain.current_category, p))
    /\ \A c \in CategoryCursors :
          PatternOutcomes(markov_chain) =
              PatternOutcomes(MarkovChain(c, markov_chain.current_pattern))

C16_Witness ==
    /\ returned.op = "next_pattern"
    /\ returned.before = MarkovChain("Health", "normal")
    /\ markov_chain = MarkovChain("Health", "bursty")
    /\ returned.calls = 2

\* ------------------------------------------------------------------------
\* Claims about ChaosGenerator
\* ------------------------------------------------------------------------
\* C17: two ChaosGenerator objects constructed with the same r and the same
\* seed (an initial value 0 < seed < 1) and called alike, get_chaos_delay
\* with the same bounds and should_switch_behavior with the same
\* probability, give the same result at every call and hold the same x and
\* iteration after it.
C17_SameSeedSameSequence ==
    (twins.seed # <<>> /\ twins.seed[1] \in 1 .. 999) =>
        /\ twins.a = twins.b
        /\ twins.out_a = twins.out_b
        /\ twins.a.iteration = twins.calls

C17_Witness ==
    /\ twins.seed = <<250>>
    /\ twins.calls = MaxCalls
    /\ twins.op[1] = "get_chaos_delay"
    /\ twins.a.x # 250
    /\ twins.out_a = twins.out_b

\* C18: for min_delay <= max_delay and every state of the generator that
\* calls can lead to, get_chaos_delay(min_delay, max_delay) returns a delay d
\* with min_delay + 0.1 * (max_delay - min_delay) <= d <= max_delay, so
\* min_delay <= d <= max_delay (delays in milliseconds).
C18_DelayWithinBounds ==
    twins.op[1] = "get_chaos_delay" =>
        LET min_delay == twins.op[2]
            max_delay == twins.op[3]
        IN  \A d \in {twins.out_a, twins.out_b} :
               /\ 1000 * min_delay + 100 * (max_delay - min_delay) <= d
               /\ d <= 1000 * max_delay
               /\ 1000 * min_delay <= d

C18_Witness ==
    /\ twins.op = <<"get_chaos_delay", 1, 120>>
    /\ twins.a.x < 100
    /\ twins.out_a = 12900
    /\ twins.calls = 2

\* C19: every ChaosGenerator a worker constructs has 3.57 < r <= 4.0, for
\* every worker id 0 .. 29 of the pool (r = 3.85 + 0.01 * worker_id).
C19_WorkerRChaotic ==
    \A worker_id \in WorkerIds :
        twins.a.r = WorkerR(worker_id) => (357 < twins.a.r /\ twins.a.r <= 400)

\* ------------------------------------------------------------------------
\* Claims about IssueTrafficGenerator._modify_query_for_frustration
\* ------------------------------------------------------------------------
\* C20: _modify_query_for_frustration(q, n) returns q unchanged for every
\* query q and every n < 3, and for every n when frustration_mode is false.
C20_NoEscalationBelowThree ==
    (mutated # NoQuery /\ (mutated.search_num < 3 \/ ~gen.frustration_mode)) =>
        mutated.result = mutated.query

C20_Witness ==
    /\ gen.frustration_mode
    /\ mutated.search_num = 2
    /\ mutated.query = <<" ", "wifi", " ">>
    /\ mutated.result = <<" ", "wifi", " ">>

\* C21: counting the equally likely vocabulary draws of a tier, the fraction
\* of draws whose result differs from the base query (a query of the catalog,
\* without whitespace at its ends) does not decrease from a search number to
\* a higher one, across the tiers n < 3, 3..5, 6..10 and n > 10; with
\* frustration_mode on, the fraction at n > 10 is strictly greater than the
\* fraction at 3 <= n <= 5.
C21_DecorationNonDecreasing ==
    LET q == mutated.query
        Decorated(n) ==
            Cardinality({d \in TierDraws(n) :
                            _modify_query_for_frustration(gen, q, n, d[1], d[2]) # q})
        Draws(n) == Cardinality(TierDraws(n))
        n == mutated.search_num
    IN  (mutated # NoQuery /\ (q = <<>> \/ (Head(q) # " " /\ q[Len(q)] # " "))) =>
            /\ \A m \in SearchNums :
                  m >= n => Decorated(n) * Draws(m) <= Decorated(m) * Draws(n)
            /\ (gen.frustration_mode /\ n \in 3 .. 5) =>
                  \A m \in SearchNums :
                      m > 10 => Decorated(n) * Draws(m) < Decorated(m) * Draws(n)

C21_Witness ==
    /\ gen.frustration_mode
    /\ mutated.query = <<"wifi", " ", "slow">>
    /\ mutated.search_num = 5
    /\ mutated.result = <<"wifi", " ", "slow", " ", "fix">>

\* C22: for every base query without leading or trailing whitespace, every
\* search number and every prefix and suffix that can be drawn, the string
\* _modify_query_for_frustration returns has no leading and no trailing
\* whitespace.
C22_ResultStripped ==
    LET q == mutated.query
        r == mutated.result
    IN  (mutated # NoQuery /\ (q = <<>> \/ (Head(q) # " " /\ q[Len(q)] # " "))) =>
            (r = <<>> \/ (Head(r) # " " /\ r[Len(r)] # " "))

C22_Witness ==
    /\ gen.frustration_mode
    /\ mutated.query = <<>>
    /\ mutated.search_num = 11
    /\ mutated.result = <<"urgent">>

\* C32: in the low tier (3 <= search_num <= 5) strictly more than half of the
\* equally likely prefix and suffix draws return the base query unchanged,
\* for a base query as the catalog holds them (not empty, no whitespace at
\* its ends).
C32_LowTierMostlyUnmodified ==
    LET q == mutated.query
        n == mutated.search_num
        Unmodified ==
            Cardinality({d \in TierDraws(n) :
                            _modify_query_for_frustration(gen, q, n, d[1], d[2]) = q})
    IN  (/\ mutated # NoQuery
         /\ n \in 3 .. 5
         /\ q # <<>> /\ Head(q) # " " /\ q[Len(q)] # " ") =>
            2 * Unmodified > Cardinality(TierDraws(n))

\* ------------------------------------------------------------------------
\* Claims about PrivacyMetrics
\* ------------------------------------------------------------------------
\* C24: in every reachable state the buffer of recent delay samples,
\* privacy_metrics.timing_samples, holds at most 100 samples.
C24_AtMostHundredSamples == Len(privacy_metrics.timing_samples) <= 100

\* C25: get_confusion_score returns an integer from 0 to 100 in every state
\* of the metrics, whatever the numbers of user agents, categories, delay
\* samples and identity changes.
C25_ScoreWithinHundred ==
    /\ get_confusion_score(privacy_metrics) \in 0 .. 100
    /\ returned.op # "None" => returned.value \in 0 .. 100

C25_Witness ==
    /\ returned.op = "record_identity_change"
    /\ privacy_metrics.identity_changes = 14
    /\ Cardinality(privacy_metrics.unique_user_agents) = 7
    /\ Cardinality(privacy_metrics.unique_categories) = 7
    /\ Len(privacy_metrics.timing_samples) = 100
    /\ returned.value = 100

\* C29: the chaos scalar x of a worker's ChaosGenerator (r = 3.85 + 0.01 *
\* worker_id, no seed, so a start value in [0.25, 0.75)) is strictly between
\* 0 and 1 after any number of advances of the logistic map.
C29_XInsideUnitInterval ==
    (twins.seed = <<>> /\ \E worker_id \in WorkerIds : twins.a.r = WorkerR(worker_id)) =>
        /\ 0 < twins.a.x /\ twins.a.x < 1000
        /\ 0 < twins.b.x /\ twins.b.x < 1000

\* C31: in both transition tables every row key is a column key of positive
\* weight in at least one row and every column key is a row key.  So a
\* cursor that is a row key (as the cursors drawn in __init__ are) has a row
\* of positive outgoing mass, every value a call can move it to is a row key
\* again, and a call made at such a cursor returns a positive-weight key of
\* its row, which is the weighted branch and not the uniform fallback.
C31_NoDeadRows ==
    LET Columns(row) == {e[1] : e \in Range(row)}
        Closed(table) ==
            /\ \A k \in DOMAIN table :
                  \E j \in DOMAIN table : k \in PositiveKeys(table[j])
            /\ \A j \in DOMAIN table : Columns(table[j]) \subseteq DOMAIN table
    IN  /\ Closed(category_transitions)
        /\ Closed(pattern_transitions)
        /\ markov_chain.current_category \in DOMAIN category_transitions =>
              /\ PositiveKeys(category_transitions[markov_chain.current_category]) # {}
              /\ CategoryOutcomes(markov_chain) \subseteq DOMAIN category_transitions
        /\ markov_chain.current_pattern \in DOMAIN pattern_transitions =>
              /\ PositiveKeys(pattern_transitions[markov_chain.current_pattern]) # {}
              /\ PatternOutcomes(markov_chain) \subseteq DOMAIN pattern_transitions
        /\ /\ returned.op = "next_category"
           /\ returned.before.current_category \in DOMAIN category_transitions
           => /\ returned.value \in DOMAIN category_transitions
              /\ returned.value \in
                    PositiveKeys(category_transitions[returned.before.current_category])
        /\ /\ returned.op = "next_pattern"
           /\ returned.before.current_pattern \in DOMAIN pattern_transitions
           => /\ returned.value \in DOMAIN pattern_transitions
              /\ returned.value \in
                    PositiveKeys(pattern_transitions[returned.before.current_pattern])

C31_Witness ==
    /\ returned.op = "next_category"
    /\ returned.before.current_category = "SocialMedia"
    /\ returned.before.current_pattern = "erratic"
    /\ returned.value = "Health"
    /\ returned.calls = 2

\* ------------------------------------------------------------------------
\* Claims about get_random_news_url
\* ------------------------------------------------------------------------
\* C38: for a configuration without decoy injection and without issue
\* simulation, the category get_random_news_url returns to the tick is a
\* member of the list of enabled categories computed for the configuration
\* (at the scheduled profile of the call).  With the chain in use
\* (chaos_mode and use_markov) the cursor is the category next_category
\* sampled; the category returned is the sampled one where it is enabled,
\* and where it is not, an enabled one, each of the enabled ones being a
\* possible outcome, while the cursor keeps the sampled value.
C38_FetchesEnabledCategory ==
    LET before == returned.before.markov_chain
        available == Available(config, returned.before.profile)
        sampled == markov_chain.current_category
    IN  (/\ returned.op = "get_random_news_url"
         /\ ~config.inject_decoys
         /\ config.simulate_issues = "None") =>
            /\ returned.value \in available
            /\ available \subseteq NEWS_SITES
            /\ ~(config.chaos_mode /\ config.use_markov) => markov_chain = before
            /\ (config.chaos_mode /\ config.use_markov) =>
                  /\ sampled \in PositiveKeys(category_transitions[before.current_category])
                  /\ sampled \in available => returned.value = sampled
                  /\ sampled \notin available =>
                        {get_random_news_url(
                             config, before, TRUE,
                             [d EXCEPT !.profile = returned.before.profile]).category :
                           d \in {e \in NewsDraws(config) :
                                     next_category(before, e.u_markov, e.c_markov)
                                         .current_category \notin available}}
                        = available

C38_Witness ==
    /\ returned.op = "get_random_news_url"
    /\ config.chaos_mode /\ config.use_markov
    /\ ~config.inject_decoys
    /\ config.simulate_issues = "None"
    /\ config.persona = "privacy_advocate"
    /\ ~config.scheduled_profile
    /\ returned.before.markov_chain.current_category = "Lifestyle"
    /\ markov_chain.current_category = "SocialMedia"
    /\ returned.value = "Privacy"
====
